---- MODULE Spec2Model ----
(***************************************************************************)
(* Model of the deduplicating RSS poller (src/src/news_rss.py), of the      *)
(* webhook listener (src/src/polymarket_client/webhook_listener.py), of    *)
(* the index handlers (qdrant_handler.py, qdrant_handler_queued.py) and of *)
(* the API client's _request (src/src/client/client.py).                   *)
(*                                                                         *)
(* Spec      a poller without a state path, polling feeds of up to         *)
(*           MaxFeedLen entries;                                           *)
(* SpecSave  a poller with a state path, _save_state taken one file        *)
(*           operation at a time, each of which may fail, and the process  *)
(*           liable to die at any point;                                   *)
(* SpecLoad  the construction of a poller over state files of all shapes;  *)
(* SpecKey   make_article_key over pairs of entries;                       *)
(* SpecFetch fetch_feed_data over the responses a fetch may meet;          *)
(* SpecLoop  run_continuous_polling with a state path: the callback may    *)
(*           raise and a KeyboardInterrupt may arrive at any step;         *)
(* SpecRuns  two runs of that loop, one after the other, on the same files, *)
(*           the first ended at any point;                                 *)
(* SpecHook  the webhook listener: registrations, start and stop, and      *)
(*           requests posted one after the other, each handled on its      *)
(*           thread one callback at a time;                                *)
(* SpecLife  start() and stop() of the listener taken one line at a time,  *)
(*           on a fixed port or on port 0, while requests are served;      *)
(* SpecConc  the listener with two callbacks registered, serving up to     *)
(*           MaxConns requests at a time, each on its thread;              *)
(* SpecQueue the direct or the queued index handler receiving up to        *)
(*           MaxEvents market events, with the worker thread and           *)
(*           shutdown(); SpecQueueFair adds the fair scheduling of the     *)
(*           worker;                                                       *)
(* SpecRequest one call of BaseClient._request.                            *)
(*                                                                         *)
(* Python strings are sequences of one-character strings, so that strip,   *)
(* concatenation and code-point ordering are computed and not assumed.     *)
(* Tokens that are not text (None, an unparsable time tuple) are           *)
(* one-element sequences holding a multi-character word, which no text     *)
(* string can equal.                                                       *)
(***************************************************************************)
EXTENDS Integers, Sequences, FiniteSets, TLC

\* ------------------------------------------------------------------ bounds
MaxFeedLen == 3      \* entries an upstream feed document lists at most
MaxItems == 2        \* max_items_per_feed the poller is constructed with
MaxCycles == 2       \* poll_all_feeds calls per poller instance
MaxSaveFeedLen == 1  \* entries a feed lists at most where the file steps are modelled
MaxConns == 2        \* connections the webhook server has open at a time
MaxOnCalls == 2      \* calls of WebhookListener.on
MaxEvents == 2       \* market events the index handler receives
MaxRetries == 3      \* self.retries of the API client, at most
MaxBackoff == 2      \* self.backoff of the API client, at most

\* ----------------------------------------------------------------- strings
None == <<"None">>
BadTime == <<"BadTime">>
\* The placeholders "No date", "No title", "No link", kept as single words.
NoDate == <<"No date">>
NoTitle == <<"No title">>
NoLink == <<"No link">>

\* Characters in code-point order (the order Python compares strings by).
Alphabet == <<" ", "1", "2", ":", "a", "d", "i", "k", "l", "n", "p", "t", "u", "|">>

Ord(c) == CHOOSE i \in 1..Len(Alphabet) : Alphabet[i] = c

RECURSIVE StrLess(_, _)
StrLess(s, t) ==
    IF t = <<>> THEN FALSE
    ELSE IF s = <<>> THEN TRUE
    ELSE IF Head(s) = Head(t) THEN StrLess(Tail(s), Tail(t))
    ELSE Ord(Head(s)) < Ord(Head(t))

RECURSIVE lstrip(_)
lstrip(s) == IF s # <<>> /\ Head(s) = " " THEN lstrip(Tail(s)) ELSE s

RECURSIVE rstrip(_)
rstrip(s) ==
    IF s # <<>> /\ s[Len(s)] = " " THEN rstrip(SubSeq(s, 1, Len(s) - 1)) ELSE s

strip(s) == rstrip(lstrip(s))

\* Python truthiness of an attribute that is None or a string.
Truthy(x) == x # None /\ x # <<>>

\* x or default
OrElse(x, default) == IF Truthy(x) THEN x ELSE default

\* ------------------------------------------------------- make_article_key
\* make_article_key with the link taking priority over the id.
make_article_key_link_first(entry) ==
    IF Truthy(entry.link) THEN <<"l", "i", "n", "k", ":", ":">> \o entry.link
    ELSE IF Truthy(entry.id) THEN <<"i", "d", ":", ":">> \o entry.id
    ELSE <<"t", "p", ":", ":">> \o strip(OrElse(entry.title, <<>>)) \o <<"|">>
             \o strip(OrElse(entry.published, <<>>))

make_article_key(entry) ==
    IF Truthy(entry.id) THEN <<"i", "d", ":", ":">> \o entry.id
    ELSE IF Truthy(entry.link) THEN <<"l", "i", "n", "k", ":", ":">> \o entry.link
    ELSE <<"t", "p", ":", ":">> \o strip(OrElse(entry.title, <<>>)) \o <<"|">>
             \o strip(OrElse(entry.published, <<>>))

\* -------------------------------------------------------- _safe_published
\* published_parsed is modelled by the ISO string datetime(...).isoformat()
\* gives for it, or BadTime when datetime(...) raises.
_safe_published(entry) ==
    [published |-> OrElse(entry.published, NoDate),
     published_iso |-> IF entry.published_parsed = None
                          \/ entry.published_parsed = BadTime
                       THEN None ELSE entry.published_parsed]

\* ------------------------------------------------------------ configuration
\* self.rss_feeds: source names in configuration (dict insertion) order.
Feeds == <<"A", "B">>
Sources == {Feeds[i] : i \in 1..Len(Feeds)}

\* ---------------------------------------------------------- upstream feeds
Entry(id, link, title, published, parsed) ==
    [id |-> id, link |-> link, title |-> title, published |-> published,
     published_parsed |-> parsed]

\* Entries an upstream feed may list: an article, the same article edited
\* (same id, other link, title and dates) and an entry known by its link only.
EntryPool ==
    { Entry(<<"a">>, <<"l">>, <<"t">>, <<"1">>, <<"1">>),
      Entry(<<"a">>, <<"u">>, <<"u">>, <<"2">>, <<"2">>),
      Entry(None, <<"l">>, <<" ", "t">>, None, None) }

\* Sequences of length at most n over S.
SeqsUpTo(S, n) == UNION { [1..k -> S] : k \in 0..n }

FeedDocs == SeqsUpTo(EntryPool, MaxFeedLen)

\* Opaque cache validators an upstream response may carry.
Validators == { <<None, None>>, <<<<"e1">>, <<"m1">>>> }

\* ------------------------------------------------------- fetch_feed_data
MakeArticle(entry, source_name) ==
    LET pub == _safe_published(entry) IN
    [key |-> make_article_key(entry),
     source |-> source_name,
     title |-> OrElse(entry.title, NoTitle),
     link |-> OrElse(entry.link, NoLink),
     published |-> pub.published,
     published_iso |-> pub.published_iso]

\* entries[: n]
Take(s, n) == SubSeq(s, 1, IF Len(s) < n THEN Len(s) ELSE n)

\* a.get("published_iso") or ""
SortKey(a) == IF a.published_iso = None THEN <<>> ELSE a.published_iso

\* Position of `a` in a list already sorted newest first: after every
\* element whose key is not smaller (list.sort is stable, also reversed).
InsertNewestFirst(sorted, a) ==
    LET later == { i \in 1..Len(sorted) : StrLess(SortKey(sorted[i]), SortKey(a)) }
        at == IF later = {} THEN Len(sorted) + 1
              ELSE CHOOSE i \in later : \A j \in later : i <= j
    IN SubSeq(sorted, 1, at - 1) \o <<a>> \o SubSeq(sorted, at, Len(sorted))

RECURSIVE SortNewestFirst(_)
SortNewestFirst(as) ==
    IF as = <<>> THEN <<>>
    ELSE InsertNewestFirst(SortNewestFirst(SubSeq(as, 1, Len(as) - 1)), as[Len(as)])

\* The list capped and normalised, without the sort of line 246.
BuildArticlesUnsorted(entries, source_name) ==
    LET capped == Take(entries, MaxItems) IN
    [i \in 1..Len(capped) |-> MakeArticle(capped[i], source_name)]

\* The list sorted before it is capped.
BuildArticlesSortFirst(entries, source_name) ==
    Take(SortNewestFirst([i \in 1..Len(entries) |-> MakeArticle(entries[i], source_name)]),
         MaxItems)

\* Lines 221-247: cap, normalise, then sort.
BuildArticles(entries, source_name) ==
    LET capped == Take(entries, MaxItems) IN
    SortNewestFirst([i \in 1..Len(capped) |-> MakeArticle(capped[i], source_name)])

\* ------------------------------------------------ poll_all_feeds, lines 266-272
Keys(arts) == {arts[i].key : i \in 1..Len(arts)}

\* The loop without self.seen_keys.add(k).
RECURSIVE DedupLoopNoMark(_, _, _)
DedupLoopNoMark(arts, seen, new_items) ==
    IF arts = <<>> THEN [seen |-> seen, new_items |-> new_items]
    ELSE LET art == Head(arts) IN
         IF art.key \in seen
         THEN DedupLoopNoMark(Tail(arts), seen, new_items)
         ELSE DedupLoopNoMark(Tail(arts), seen, Append(new_items, art))

\* The loop with break where the code has continue.
RECURSIVE DedupLoopBreak(_, _, _)
DedupLoopBreak(arts, seen, new_items) ==
    IF arts = <<>> THEN [seen |-> seen, new_items |-> new_items]
    ELSE LET art == Head(arts) IN
         IF art.key \in seen
         THEN [seen |-> seen, new_items |-> new_items]
         ELSE DedupLoopBreak(Tail(arts), seen \cup {art.key}, Append(new_items, art))

\* The loop on a seen set of its own for every source, merged into the
\* seen set of the poller afterwards.
RECURSIVE DedupLoopPerSource(_, _, _)
DedupLoopPerSource(arts, seen, new_items) ==
    IF arts = <<>> THEN [seen |-> seen, new_items |-> new_items]
    ELSE LET art == Head(arts) IN
         IF art.key \in Keys(new_items)
         THEN DedupLoopPerSource(Tail(arts), seen, new_items)
         ELSE DedupLoopPerSource(Tail(arts), seen \cup {art.key}, Append(new_items, art))

\* The loop on a seen set that is started anew for every list.
DedupLoopForget(arts, seen, new_items) ==
    LET r == DedupLoopNoMark(arts, seen, new_items)
    IN [seen |-> Keys(arts), new_items |-> r.new_items]

RECURSIVE DedupLoop(_, _, _)
DedupLoop(arts, seen, new_items) ==
    IF arts = <<>> THEN [seen |-> seen, new_items |-> new_items]
    ELSE LET art == Head(arts) IN
         IF art.key \in seen
         THEN DedupLoop(Tail(arts), seen, new_items)
         ELSE DedupLoop(Tail(arts), seen \cup {art.key}, Append(new_items, art))

\* The assignment done only for a non-empty list.
DictSetSkipEmpty(d, name, items) ==
    IF items = <<>> THEN d ELSE Append(d, [source |-> name, items |-> items])

\* all_new[source_name] = new_items on an insertion-ordered dict.
DictSet(d, name, items) ==
    IF \E i \in 1..Len(d) : d[i].source = name
    THEN [i \in 1..Len(d) |-> IF d[i].source = name
                              THEN [source |-> name, items |-> items] ELSE d[i]]
    ELSE Append(d, [source |-> name, items |-> items])

\* -------------------------------------------------------------- state file
\* feed_state: per source, whether the dict has the source and its validators.
NoValidator == [present |-> FALSE, etag |-> None, modified |-> None]
EmptyFeedState == [s \in Sources |-> NoValidator]

\* What "feed_state" of the state file holds for a source.
FileValidator(present, etag) == [present |-> present, etag |-> etag]
NoFileValidators == [s \in Sources |-> FileValidator(FALSE, None)]

\* A file: absent, text that is not JSON (empty, partial: a prefix of a dump,
\* undecodable, invalid_json), or a JSON document, whose top level is an
\* object or not and whose two fields have the shape the program writes
\* (seen_keys a list of strings, feed_state an object of objects) or another.
File(kind, top, seen_shape, seen_items, fs_shape, fs_items) ==
    [kind |-> kind, top |-> top, seen_shape |-> seen_shape, seen_items |-> seen_items,
     fs_shape |-> fs_shape, fs_items |-> fs_items]

NotJson(kind) == File(kind, "none", "missing", <<>>, "missing", NoFileValidators)
Absent == NotJson("absent")
JsonFile(seen_items, fs_items) == File("json", "object", "list", seen_items, "object", fs_items)

\* sorted(self.seen_keys)
RECURSIVE SortedKeys(_)
SortedKeys(S) ==
    IF S = {} THEN <<>>
    ELSE LET least == CHOOSE k \in S : \A o \in S \ {k} : StrLess(k, o)
         IN <<least>> \o SortedKeys(S \ {least})

\* The document without the fingerprints.
SerializeNoKeys(seen, fstate) ==
    JsonFile(<<>>,
             [s \in Sources |-> FileValidator(fstate[s].present, fstate[s].etag)])

\* Lines 167-170: the document _save_state dumps.
Serialize(seen, fstate) ==
    JsonFile(SortedKeys(seen),
             [s \in Sources |-> FileValidator(fstate[s].present, fstate[s].etag)])

Range(seq) == {seq[i] : i \in 1..Len(seq)}

\* Lines 152-161: the state _load_state leaves, from the state `cur` that
\* __init__ set up. An exception leaves what was assigned before it.
_load_state(file, cur) ==
    IF file.kind # "json" THEN cur                      \* open / json.load raises
    ELSE IF file.top # "object" THEN cur                \* data.get raises
    ELSE IF file.seen_shape = "number" THEN cur         \* set(5) raises
    ELSE LET seen == IF file.seen_shape = "missing" THEN {}
                     ELSE Range(file.seen_items)        \* a list, or a string's characters
         IN IF file.fs_shape \in {"list", "bad_value"}  \* .items() / v.get raises
            THEN [seen_keys |-> seen, feed_state |-> cur.feed_state]
            ELSE [seen_keys |-> seen,
                  feed_state |->
                      [s \in Sources |->
                          IF file.fs_shape = "object" /\ file.fs_items[s].present
                          THEN [present |-> TRUE, etag |-> file.fs_items[s].etag,
                                modified |-> None]
                          ELSE NoValidator]]

\* Lines 140-148: the state a new poller starts with.
InitialState(has_path, file) ==
    LET empty == [seen_keys |-> {}, feed_state |-> EmptyFeedState] IN
    IF has_path /\ file.kind # "absent" THEN _load_state(file, empty) ELSE empty

\* Writing the state file in place.
WriteTargetDest == "dest"

\* Line 171: the file _save_state opens for writing.
WriteTarget == "tmp"

\* State files a deployment may start with: none, or one a former run saved.
KeyA == make_article_key(Entry(<<"a">>, None, None, None, None))
SomeValidators ==
    [s \in Sources |-> IF s = Feeds[1] THEN FileValidator(TRUE, <<"e1">>)
                       ELSE FileValidator(FALSE, None)]
InitFiles == { Absent, JsonFile(<<KeyA>>, SomeValidators) }

\* ------------------------------------------------------ upstream responses
\* What one fetch of a source meets: an exception (network or parse), or a
\* parsed feed with a status, validators and entries. feedparser documents
\* no entries for a 304; the code does not rely on it, so a 304 that lists
\* an entry is among the inputs.
Response(kind, status, etag, modified, entries) ==
    [kind |-> kind, status |-> status, etag |-> etag, modified |-> modified,
     entries |-> entries]

ResponsesOver(docs) ==
    { Response("error", 0, None, None, <<>>) }
    \cup { Response("response", 304, r[1][1], r[1][2], r[2]) :
              r \in Validators \X SeqsUpTo(EntryPool, 1) }
    \cup { Response("response", 200, r[1][1], r[1][2], r[2]) :
              r \in Validators \X docs }

Responses == ResponsesOver(FeedDocs)
ShortResponses == ResponsesOver(SeqsUpTo(EntryPool, MaxSaveFeedLen))

\* What a fetch meets where the polling loop is modelled: an exception, a
\* 304, or a new document of at most one entry with new validators.
LoopResponses ==
    { Response("error", 0, None, None, <<>>),
      Response("response", 304, None, None, <<>>) }
    \cup { Response("response", 200, <<"e1">>, <<"m1">>, doc) :
              doc \in {<<>>} \cup { <<e>> : e \in EntryPool } }

\* _parse_with_cache storing what the response has, a validator or none.
_parse_with_cache_overwrite(fstate, source_name, resp) ==
    [fstate EXCEPT ![source_name] =
        [present |-> TRUE, etag |-> resp.etag, modified |-> resp.modified]]

\* Lines 199-204: validators kept after a parse that returned.
_parse_with_cache(fstate, source_name, resp) ==
    [fstate EXCEPT ![source_name] =
        [present |-> TRUE,
         etag |-> IF Truthy(resp.etag) THEN resp.etag ELSE @.etag,
         modified |-> IF Truthy(resp.modified) THEN resp.modified ELSE @.modified]]

\* fetch_feed_data without its try/except.
fetch_feed_data_no_except(fstate, source_name, resp) ==
    IF resp.kind = "error"
    THEN [escaped |-> TRUE, articles |-> <<>>, feed_state |-> fstate]
    ELSE [escaped |-> FALSE,
          articles |-> IF resp.status = 304 THEN <<>>
                       ELSE BuildArticles(resp.entries, source_name),
          feed_state |-> _parse_with_cache(fstate, source_name, resp)]

\* fetch_feed_data without the 304 test of lines 214-216.
fetch_feed_data_no_304(fstate, source_name, resp) ==
    IF resp.kind = "error"
    THEN [escaped |-> FALSE, articles |-> <<>>, feed_state |-> fstate]
    ELSE [escaped |-> FALSE,
          articles |-> BuildArticles(resp.entries, source_name),
          feed_state |-> _parse_with_cache(fstate, source_name, resp)]

\* fetch_feed_data dropping the validators of a source whose fetch raised.
fetch_feed_data_forget(fstate, source_name, resp) ==
    IF resp.kind = "error"
    THEN [escaped |-> FALSE, articles |-> <<>>,
          feed_state |-> [fstate EXCEPT ![source_name] = NoValidator]]
    ELSE [escaped |-> FALSE,
          articles |-> IF resp.status = 304 THEN <<>>
                       ELSE BuildArticles(resp.entries, source_name),
          feed_state |-> _parse_with_cache(fstate, source_name, resp)]

\* Lines 211-250: the list returned, whether an exception escaped to the
\* caller, and the feed_state left.
fetch_feed_data(fstate, source_name, resp) ==
    IF resp.kind = "error"
    THEN [escaped |-> FALSE, articles |-> <<>>, feed_state |-> fstate]
    ELSE [escaped |-> FALSE,
          articles |-> IF resp.status = 304 THEN <<>>
                       ELSE BuildArticles(resp.entries, source_name),
          feed_state |-> _parse_with_cache(fstate, source_name, resp)]

\* _save_state without its try/except.
OnSaveErrorRaise == "raised"

\* Lines 175-176: where control goes when a file operation of _save_state
\* raises: "ret" (logged, poll_all_feeds returns) or "raised" (the caller
\* gets the exception).
OnSaveError == "ret"

\* ------------------------------------- polymarket_client/webhook_listener.py
\* A JSON value as json.loads returns it: its type and a word for its
\* content ("" and "0" and "empty" are the falsy ones). "missing" is the
\* None that payload.get gives for a key the object does not have.
Json(type, val) == [type |-> type, val |-> val]
JsonMissing == Json("missing", "")
JsonNull == Json("null", "")
EmptyObject == Json("object", "empty")

\* Python truthiness of a JSON value.
JsonTruthy(v) ==
    CASE v.type \in {"missing", "null"} -> FALSE
      [] v.type = "string" -> v.val # ""
      [] v.type = "number" -> v.val # "0"
      [] v.type = "bool" -> v.val = "true"
      [] OTHER -> v.val # "empty"

\* Whether a value can be a dict key: lists and dicts are unhashable.
Hashable(v) == v.type \notin {"list", "object"}

\* The events set_handler registers for, in its order, and the event the
\* application registers functions for.
HandlerEvents == <<"market_added", "market_resolved", "payout_logs">>
OnEvents == {"market_added"}
RegEvents == {HandlerEvents[i] : i \in 1..Len(HandlerEvents)} \cup OnEvents

\* Callables: two functions, and the bound methods of a handler object.
Functions == {"f", "g"}
Method(event) == "H.on_" \o event

\* `event` and `data` fields a posted object may have.
EventFields ==
    { JsonMissing, JsonNull, Json("string", ""), Json("string", "market_added"),
      Json("string", "payout_logs"), Json("string", "unheard"),
      Json("number", "5"), Json("list", "x") }
DataFields ==
    { JsonMissing, JsonNull, EmptyObject, Json("object", "d1"), Json("list", "x") }

\* A request body: a Content-Length header that is not a number, no bytes,
\* bytes that are not JSON, or a JSON document with its top-level type and,
\* for an object, its two fields.
Body(kind, top, event, data) == [kind |-> kind, top |-> top, event |-> event, data |-> data]
NoBody(kind) == Body(kind, "none", JsonMissing, JsonMissing)
Bodies ==
    { NoBody(k) : k \in {"bad_length", "empty", "not_json"} }
    \cup { Body("json", t, JsonMissing, JsonMissing) : t \in {"list", "number", "null"} }
    \cup { Body("json", "object", f[1], f[2]) : f \in EventFields \X DataFields }

DefaultPath == "/market-event"
Paths == {DefaultPath, "/hook"}
RequestPaths == Paths

Request(path, body) == [path |-> path, body |-> body]
Requests == { Request(r[1], r[2]) : r \in RequestPaths \X Bodies }

\* do_POST without the test of lines 41-42.
ParsePayloadNoEventTest(body) ==
    LET failed(e) == [error |-> e, event |-> JsonMissing, data |-> JsonMissing] IN
    CASE body.kind = "bad_length" -> failed("ValueError")
      [] body.kind = "not_json" -> failed("JSONDecodeError")
      [] body.kind = "empty" -> [error |-> "", event |-> JsonMissing, data |-> EmptyObject]
      [] body.top # "object" -> failed("AttributeError")
      [] OTHER -> [error |-> "", event |-> body.event,
                   data |-> IF JsonTruthy(body.data) THEN body.data ELSE EmptyObject]

\* Lines 36-42: what the try block leaves: the exception it raised ("" for
\* none) and event and data.
ParsePayload(body) ==
    LET failed(e) == [error |-> e, event |-> JsonMissing, data |-> JsonMissing] IN
    CASE body.kind = "bad_length" -> failed("ValueError")           \* int(...)
      [] body.kind = "not_json" -> failed("JSONDecodeError")        \* json.loads
      [] body.kind = "empty" -> failed("Missing 'event'")           \* b"{}"
      [] body.top # "object" -> failed("AttributeError")            \* payload.get
      [] ~JsonTruthy(body.event) -> failed("Missing 'event'")
      [] OTHER -> [error |-> "", event |-> body.event,
                   data |-> IF JsonTruthy(body.data) THEN body.data ELSE EmptyObject]

\* _make_handler without the path: the class attribute is compared.
PathAllowedDefault(path) == DefaultPath

\* Lines 60-61 and 27: the path the bound handler class compares with.
PathAllowed(path) == path

\* self._subs: per event whether the dict has the key, and its list.
NoSubscribers == [present |-> FALSE, handlers |-> <<>>]
EmptySubs == [e \in RegEvents |-> NoSubscribers]

\* emit reading the list with setdefault instead of get.
SubsAfterGetInsert(subs, event) ==
    IF Hashable(event) /\ event.type = "string" /\ event.val \in RegEvents
    THEN [subs EXCEPT ![event.val].present = TRUE]
    ELSE subs

\* Line 19: self._subs after self._subs.get(event, []).
SubsAfterGet(subs, event) == subs

\* Line 19: whether the key is in the dict, so that the loop runs over the
\* list of the registry and not over the default [].
HasKey(subs, event) ==
    event.type = "string" /\ event.val \in RegEvents /\ subs[event.val].present

\* on() putting the handler at the head of the list.
SubscribePrepend(subs, event, handler) ==
    [subs EXCEPT ![event] = [present |-> TRUE, handlers |-> <<handler>> \o @.handlers]]

\* Line 16: self._subs.setdefault(event, []).append(handler)
Subscribe(subs, event, handler) ==
    [subs EXCEPT ![event] = [present |-> TRUE, handlers |-> Append(@.handlers, handler)]]

\* A connection: where its handler thread is, the request, what do_POST
\* parsed, the position of emit's loop, the response sent and, for the
\* properties, how many callbacks the event had when emit was called.
Conn(cpc, req, event, data, live, idx, status, sent, due) ==
    [pc |-> cpc, req |-> req, event |-> event, data |-> data, live |-> live,
     idx |-> idx, status |-> status, sent |-> sent, due |-> due]
ConnIds == 1..MaxConns
NoRequest == Request(DefaultPath, NoBody("empty"))
FreeConn == Conn("free", NoRequest, JsonMissing, JsonMissing, FALSE, 0, 0, "", 0)

\* The handlers of every event, whatever the event emitted.
HandlersForAll(subs, event, live) ==
    IF live
    THEN subs["market_added"].handlers \o subs["market_resolved"].handlers
            \o subs["payout_logs"].handlers
    ELSE <<>>

\* Line 19: the list the for loop of emit runs over: the list of the
\* registry (read by index, so that it grows under the loop when on() appends
\* to it), or the default [] when the dict had no such key.
HandlersFor(subs, event, live) == IF live THEN subs[event.val].handlers ELSE <<>>

\* The response made to depend on the callbacks.
EmitStatusByOutcome(raised) == IF raised THEN 500 ELSE 200

\* Line 52: the status sent after emit returned, whether or not a callback
\* raised.
EmitStatus(raised) == 200

\* emit without its try/except.
OnCallbackErrorPropagate == "died"

\* Lines 22-23: where a handler thread goes when a callback raises an
\* Exception: "emit" (printed, the loop goes on) or "died" (the exception
\* leaves emit and do_POST).
OnCallbackError == "emit"

\* The server objects start() may create. A closed one is garbage, and its
\* name stands for the next object created.
Servers == <<"server", "server2">>
ServerNames == {Servers[i] : i \in 1..Len(Servers)}
NoSockets == [s \in ServerNames |-> "closed"]

\* self.port, line 66: a port number, or 0, for which the system picks a free
\* port at every bind.
Ports == {"fixed", "ephemeral"}

\* The sockets of the listener that hold their port: bound, accepting
\* ("serving") or shut down and not yet closed.
Live(socks) == {s \in ServerNames : socks[s] # "closed"}

\* Line 86: what the bind in the constructor of ThreadingHTTPServer may come
\* to. A fixed port that a socket of this listener holds is in use, one that
\* it does not hold may be held by another program, and for port 0 the
\* system finds a free port.
BindOutcomes(pt, socks) ==
    IF pt = "ephemeral" THEN {"bound"}
    ELSE IF Live(socks) # {} THEN {"in_use"}
    ELSE {"bound", "in_use"}

\* The server object line 86 creates.
NewServer(socks) ==
    Servers[CHOOSE i \in 1..Len(Servers) :
               /\ socks[Servers[i]] = "closed"
               /\ \A j \in 1..(i - 1) : socks[Servers[j]] # "closed"]

\* stop without the test of line 92.
StopHasServerAlways(server) == TRUE

\* Line 92: stop() goes on when self._server is set.
StopHasServer(server) == server # "None"

\* The loop with continue in the except clause of lines 294-295.
OnBatchErrorSkipSleep == "poll"

\* run_continuous_polling without the try/except around on_batch.
OnBatchErrorRaise == "failed"

\* Lines 292-295: where the loop goes when on_batch raises an Exception:
\* "sleep" (logged, the loop goes on) or "failed" (the exception leaves
\* run_continuous_polling).
OnBatchError == "sleep"

\* run_continuous_polling without its except KeyboardInterrupt.
OnInterruptRaise == "failed"

\* Lines 298-299: where a KeyboardInterrupt raised inside the loop leaves
\* run_continuous_polling: "returned" or "failed".
OnInterrupt == "returned"

\* ------------------------------------------------------------------- state
VARIABLES
    pc,           \* "new" (process started, poller not built), "idle", "loop",
                  \* "save", "opened", "partial", "written" (inside _save_state),
                  \* "ret" (poll_all_feeds returned), "raised" (it raised),
                  \* "crashed" (the process died)
    state_path,   \* whether a state path is configured
    seen_keys, feed_state,
    files,        \* "dest": the state file, "tmp": state_path + ".tmp"
    srcIdx,       \* position of the for loop of poll_all_feeds in Feeds
    all_new,      \* the dict poll_all_feeds builds and returns
    articles,     \* what fetch_feed_data returned for the last source
    \* history, read by the properties only
    emitted,      \* per key, how often this instance returned it
    seenAtStart,  \* seen_keys when the cycle began
    seenBefore,   \* seen_keys when the last source was begun
    cycleKeys,    \* keys of the articles fetched in this cycle
    outcomes,     \* per source of this cycle: "error", "304" or "200"
    saveCalls,    \* calls of _save_state in this cycle
    saveOk,       \* the cycle's _save_state renamed the temp file
    lostSave,     \* a _save_state of this instance failed
    cycles,       \* calls of poll_all_feeds so far
    \* make_article_key on its own
    keyArgs,      \* the entries it is applied to
    keyResults,   \* the keys it returned for them
    keyEmitted,   \* what lines 266-272 emit for their articles, in this order
    \* fetch_feed_data on its own
    fetchArg,     \* the response its fetch meets
    fetchResult,  \* whether it was called, whether it raised, the list returned
    \* run_continuous_polling
    loopPc,       \* "off" (not called), "poll" (line 290), "batch" (line 293),
                  \* "sleep" (line 297), "returned", "failed" (it raised)
    on_batch,     \* whether a callback was passed
    \* history of the loop, read by the properties only
    lastBatch,    \* the argument of the last on_batch call
    batchCalls,   \* calls of on_batch so far
    batchRaised,  \* some on_batch call raised
    interrupted,  \* a KeyboardInterrupt arrived
    cycleState,   \* the document of the state the last completed cycle left
    savedState,   \* the state file at the start, then the document of the
                  \* last completed cycle whose save succeeded
    \* WebhookListener
    path,         \* self.path
    _subs,        \* self.bus._subs
    _server,      \* self._server: "None" or a server object
    _thread,      \* self._thread: "None" or "thread"
    _handler_instance,  \* self._handler_instance: "None" or "H"
    conns,        \* the connections and their handler threads
    \* history of the listener, read by the properties only
    calls,        \* the callback invocations of the open connections
    registered,   \* the registrations, in the order they were made
    lastServed,   \* the status of the connection closed last (0: it got no
                  \* response, -1: none was closed)
    port,         \* self.port: "fixed" or "ephemeral" (0)
    sockets,      \* per server object, its listening socket: "closed",
                  \* "bound", "serving" (serve_forever accepts), "shut"
    caller,       \* the thread that calls start and stop: "idle", "starting"
                  \* (after line 86), "stop_close" (after line 93),
                  \* "stop_join" (after line 95)
    \* history of the calls of start and stop, read by the properties only
    callLog,      \* how the last two calls ended: "start_ok", "start_raised",
                  \* "stop_ok", "stop_noop", "stop_raised" ("none": no call)
    \* history over the runs of the polling process, read by the properties
    delivered,    \* per key, how often it was passed to on_batch, in all runs
    deliveredNow, \* per key, how often in this run
    durable,      \* keys passed to on_batch in a cycle whose save succeeded
    run,          \* "first", or "later" for a process started after another
    \* QdrantHandler, direct (qdrant_handler.py) or queued
    \* (qdrant_handler_queued.py)
    handlerKind,  \* "none" (no handler built), "direct" or "queued"
    max_markets,  \* self.max_markets: whether it is set, and to what number
    _market_queue,  \* self._market_queue: the batches put and not yet taken
    _running,     \* self._running
    worker,       \* the worker thread: where it is in _process_queue, the
                  \* batch it has in hand and the index of its next market
    evts,         \* the calls of on_market_added and on_market_resolved
    index,        \* the ids of the points of the collection "markets"
    shutdownPc,   \* the caller of shutdown(): "idle", "join", "returned"
    \* history of the handler, read by the properties only
    enqueued,     \* the batches put on the queue, in the order of the puts
    taken,        \* the batches the worker took, in the order it took them
    acked,        \* markets of a market_added call that has returned
    ordered,      \* markets whose market_resolved was received after every
                  \* market_added for them had returned
    lateAdded,    \* markets added again after a market_resolved for them
    \* BaseClient._request
    retries,      \* self.retries
    backoff,      \* self.backoff
    permissions,  \* self.permissions
    required,     \* the permission the endpoint requires, or "None"
    reqPc,        \* "idle", "attempt" (line 95), "sleep" (line 102),
                  \* "returned", "raised"
    attempt,      \* the loop variable of line 93
    last_exc,     \* last_exc; after the call, what it raised
    \* history of the call, read by the properties only
    tried,        \* how each attempt ended, in order
    slept         \* the arguments of time.sleep, in order

progVars == <<pc, state_path, seen_keys, feed_state, files, srcIdx, all_new, articles>>
histVars == <<emitted, seenAtStart, seenBefore, cycleKeys, outcomes,
              saveCalls, saveOk, lostSave, cycles>>
keyVars == <<keyArgs, keyResults, keyEmitted>>
\* Variables the poller's operations never touch.
fetchVars == <<fetchArg, fetchResult>>
loopVars == <<loopPc, on_batch, lastBatch, batchCalls, batchRaised, interrupted,
              cycleState, savedState>>
hookVars == <<path, _subs, _server, _thread, _handler_instance, conns, calls,
              registered, lastServed>>
lifeVars == <<port, sockets, caller, callLog>>
runVars == <<delivered, deliveredNow, durable, run>>
queueVars == <<handlerKind, max_markets, _market_queue, _running, worker, evts, index,
               shutdownPc, enqueued, taken, acked, ordered, lateAdded>>
reqVars == <<retries, backoff, permissions, required, reqPc, attempt, last_exc, tried, slept>>
\* Variables of the index handlers and of the API client, which the poller
\* and the listener never touch.
toolVars == <<queueVars, reqVars>>
otherVars == <<keyVars, toolVars, fetchVars, loopVars, hookVars, lifeVars, runVars>>
vars == <<progVars, histVars, otherVars>>

AllKeys == {make_article_key(e) : e \in EntryPool}

NoHistory ==
    /\ emitted = [k \in AllKeys |-> 0]
    /\ seenAtStart = {} /\ seenBefore = {} /\ cycleKeys = {}
    /\ outcomes = <<>> /\ saveCalls = 0 /\ saveOk = FALSE /\ lostSave = FALSE
    /\ cycles = 0

NoKeyCalls == keyArgs = <<>> /\ keyResults = <<>> /\ keyEmitted = <<>>

NotFetched == [called |-> FALSE, escaped |-> FALSE, articles |-> <<>>]
NoFetchCalls ==
    /\ fetchArg = Response("error", 0, None, None, <<>>)
    /\ fetchResult = NotFetched

NoRuns ==
    /\ delivered = [k \in AllKeys |-> 0] /\ deliveredNow = [k \in AllKeys |-> 0]
    /\ durable = {} /\ run = "first"

NoLoop ==
    /\ loopPc = "off" /\ on_batch = FALSE
    /\ lastBatch = <<>> /\ batchCalls = 0 /\ batchRaised = FALSE
    /\ interrupted = FALSE
    /\ cycleState = Absent /\ savedState = Absent

\* ------------------------------------------------- the index handlers
\* generate_uuid: the UUID of namespace URL and name s, a function of s.
generate_uuid(s) == <<"uuid5", s>>

\* The elements a "markets" list may hold: the descriptors of two markets,
\* named by their condition_id, and an element that is no dict.
MarketIds == {"m1", "m2"}
NotADict == "junk"

\* data["markets"] of the market_added and market_resolved events received.
AddedPayloads == {<<"m1">>, <<"m1", "m2">>, <<NotADict, "m2">>}
ResolvedPayloads == {<<"m1">>, <<>>}

\* Lines 93-94 (35-36 of the direct handler): markets[:self.max_markets] if
\* max_markets is set.
TruncateNever(markets, m) == markets
Truncate(markets, m) == IF m.set THEN Take(markets, m.n) ELSE markets
\* max_markets: None (the default), or a number.
NoLimit == [set |-> FALSE, n |-> 0]
MaxMarketsChoices == {NoLimit, [set |-> TRUE, n |-> 1]}

\* How the body of the loop over a batch can end for one market: the point
\* upserted, embed raised, embed gave nothing, upsert raised; on an element
\* that is no dict, market['question'] raises TypeError.
MarketOutcomes(market) ==
    IF market = NotADict THEN {"not_a_dict"}
    ELSE {"ok", "embed_raises", "no_embeddings", "upsert_raises"}

\* queue.Queue is first in, first out.
QueueGetLast(q) == q[Len(q)]
QueueGet(q) == Head(q)
QueueRest(q) == Tail(q)

\* Line 43, while self._running.
LoopTestAlways(running) == TRUE
LoopTest(running) == running

\* Where the worker goes after line 52-53 caught an exception that left
\* _process_markets: back to the loop test.
OnBatchExceptionExit == "exited"
OnBatchException == "test"

\* Where the loop of _process_markets goes after lines 83-85 caught the
\* exception of one market: on to the next market.
OnMarketExceptionStop == "stop"
OnMarketException == "continue"

EventIds == 1..MaxEvents
FreeEvt == [pc |-> "free", event |-> "none", markets |-> <<>>, i |-> 0, out |-> "none"]
NoWorker == [pc |-> "none", markets |-> <<>>, i |-> 0]
\* The thread _start_worker started, before its first loop test.
NewWorker == [pc |-> "test", markets |-> <<>>, i |-> 0]

NoQueue ==
    /\ handlerKind = "none" /\ max_markets = NoLimit
    /\ _market_queue = <<>> /\ _running = FALSE
    /\ worker = NoWorker
    /\ evts = [e \in EventIds |-> FreeEvt]
    /\ index = {} /\ shutdownPc = "idle"
    /\ enqueued = <<>> /\ taken = <<>>
    /\ acked = {} /\ ordered = {} /\ lateAdded = {}

\* --------------------------------------------------- BaseClient._request
\* What self._client.request followed by raise_for_status can do (lines
\* 95-96): give a response, or raise one of the errors of line 98, or
\* another one.
Transient == {"ReadTimeout", "ConnectError", "RemoteProtocolError"}
AttemptOutcomes == {"response"} \cup Transient \cup {"HTTPStatusError"}

\* Line 98: the errors the except clause catches.
CaughtAll(o) == o # "response"
Caught(o) == o \in Transient

\* 2 ** n
RECURSIVE Pow2(_)
Pow2(n) == IF n = 0 THEN 1 ELSE 2 * Pow2(n - 1)

\* Line 102: the argument of time.sleep after the attempt-th attempt, in
\* units of which self.backoff is a whole number.
SleepConstant(b, a) == b
SleepFor(b, a) == b * Pow2(a - 1)

\* Line 100: whether this was the last attempt.
IsLastNever(a, r) == FALSE
IsLast(a, r) == a = r

\* _check_access, lines 60-69.
_check_access(req, perms) == req = "None" \/ req \in perms

NoRequestCalls ==
    /\ retries = 0 /\ backoff = 0 /\ permissions = {} /\ required = "None"
    /\ reqPc = "idle" /\ attempt = 0 /\ last_exc = "None"
    /\ tried = <<>> /\ slept = <<>>

NoTools == NoQueue /\ NoRequestCalls

\* WebhookListener.__init__ with the path given.
NoCalls == <<"none", "none">>

Listener(pt, p) ==
    /\ port = pt /\ sockets = NoSockets /\ caller = "idle" /\ callLog = NoCalls
    /\ path = p
    /\ _subs = EmptySubs
    /\ _server = "None" /\ _thread = "None" /\ _handler_instance = "None"
    /\ conns = [c \in ConnIds |-> FreeConn]
    /\ calls = <<>> /\ registered = <<>> /\ lastServed = -1

NewListener(p) == Listener("fixed", p)

NoHook == NewListener(DefaultPath)

\* A process whose poller is about to be built, with or without a state path.
Start(has_path, dest) ==
    /\ pc = "new"
    /\ state_path = has_path
    /\ seen_keys = {} /\ feed_state = EmptyFeedState
    /\ files = [dest |-> dest, tmp |-> Absent]
    /\ srcIdx = 0 /\ all_new = <<>> /\ articles = <<>>
    /\ NoHistory
    /\ NoKeyCalls
    /\ NoFetchCalls
    /\ NoLoop
    /\ NoRuns
    /\ NoTools
    /\ NoHook

\* The default configuration: state_path is None, nothing is persisted.
Init == Start(FALSE, Absent)

\* A poller with a state path, the state file absent or left by a former run.
SaveInit == \E f \in InitFiles : Start(TRUE, f)

\* RSSNewsPoller.__init__
Construct ==
    /\ pc = "new"
    /\ LET st == InitialState(state_path, files.dest) IN
          /\ seen_keys' = st.seen_keys
          /\ feed_state' = st.feed_state
    /\ pc' = "idle"
    /\ UNCHANGED <<state_path, files, srcIdx, all_new, articles, histVars, otherVars>>

\* poll_all_feeds is called (single_poll, or the polling loop): lines 258-259.
PollStart ==
    /\ pc \in {"idle", "ret"}
    /\ cycles < MaxCycles
    /\ pc' = "loop" /\ srcIdx' = 1 /\ all_new' = <<>> /\ articles' = <<>>
    /\ seenAtStart' = seen_keys /\ seenBefore' = seen_keys
    /\ cycleKeys' = {}
    /\ outcomes' = <<>> /\ saveCalls' = 0 /\ saveOk' = FALSE
    /\ cycles' = cycles + 1
    /\ UNCHANGED <<state_path, seen_keys, feed_state, files, emitted, lostSave, otherVars>>

\* One iteration of the for loop, lines 261-275, the fetch meeting one of
\* the responses given.
PollSourceFrom(responses) ==
    /\ pc = "loop" /\ srcIdx <= Len(Feeds)
    /\ \E resp \in responses :
          LET source_name == Feeds[srcIdx]
              got == fetch_feed_data(feed_state, source_name, resp)
              r == DedupLoop(got.articles, seen_keys, <<>>)
          IN IF got.escaped
             THEN /\ pc' = "raised"
                  /\ UNCHANGED <<seen_keys, feed_state, srcIdx, all_new, articles,
                                 emitted, seenBefore, cycleKeys, outcomes>>
             ELSE /\ pc' = "loop"
                  /\ feed_state' = got.feed_state
                  /\ articles' = got.articles
                  /\ seen_keys' = r.seen
                  /\ all_new' = DictSet(all_new, source_name, r.new_items)
                  /\ srcIdx' = srcIdx + 1
                  /\ emitted' = [k \in AllKeys |->
                        emitted[k] + Cardinality({i \in 1..Len(r.new_items) :
                                                     r.new_items[i].key = k})]
                  /\ seenBefore' = seen_keys
                  /\ cycleKeys' = cycleKeys \cup Keys(got.articles)
                  /\ outcomes' = Append(outcomes,
                        IF resp.kind = "error" THEN "error"
                        ELSE IF resp.status = 304 THEN "304" ELSE "200")
    /\ UNCHANGED <<state_path, files, seenAtStart, saveCalls, saveOk, lostSave, cycles,
                   otherVars>>

PollSource == PollSourceFrom(Responses)
PollSourceShort == PollSourceFrom(ShortResponses)
PollSourceLoop == PollSourceFrom(LoopResponses)

\* Line 278 and lines 164-165: _save_state is called after the loop.
CallSaveState ==
    /\ pc = "loop" /\ srcIdx > Len(Feeds)
    /\ saveCalls' = saveCalls + 1
    /\ pc' = IF state_path THEN "save" ELSE "ret"
    /\ UNCHANGED <<state_path, seen_keys, feed_state, files, srcIdx, all_new, articles,
                   emitted, seenAtStart, seenBefore, cycleKeys, outcomes,
                   saveOk, lostSave, cycles, otherVars>>

\* Line 172, open(tmp, "w"): the file exists and is empty.
SaveOpen ==
    /\ pc = "save"
    /\ files' = [files EXCEPT ![WriteTarget] = NotJson("empty")]
    /\ pc' = "opened"
    /\ UNCHANGED <<state_path, seen_keys, feed_state, srcIdx, all_new, articles,
                   histVars, otherVars>>

\* Line 173, json.dump: the document reaches the file in pieces.
SaveWriteSome ==
    /\ pc = "opened"
    /\ files' = [files EXCEPT ![WriteTarget] = NotJson("partial")]
    /\ pc' = "partial"
    /\ UNCHANGED <<state_path, seen_keys, feed_state, srcIdx, all_new, articles,
                   histVars, otherVars>>

SaveWriteRest ==
    /\ pc = "partial"
    /\ files' = [files EXCEPT ![WriteTarget] = Serialize(seen_keys, feed_state)]
    /\ pc' = "written"
    /\ UNCHANGED <<state_path, seen_keys, feed_state, srcIdx, all_new, articles,
                   histVars, otherVars>>

\* Line 174, os.replace(tmp, self.state_path); renaming a file onto itself
\* changes nothing.
SaveReplace ==
    /\ pc = "written"
    /\ files' = IF WriteTarget = "dest" THEN files
                ELSE [dest |-> files[WriteTarget], tmp |-> Absent]
    /\ pc' = "ret"
    /\ saveOk' = TRUE
    /\ UNCHANGED <<state_path, seen_keys, feed_state, srcIdx, all_new, articles,
                   emitted, seenAtStart, seenBefore, cycleKeys, outcomes,
                   saveCalls, lostSave, cycles, otherVars>>

\* open, write or rename raises (disk full, no permission): lines 175-176.
SaveFails ==
    /\ pc \in {"save", "opened", "partial", "written"}
    /\ pc' = OnSaveError
    /\ lostSave' = TRUE
    /\ UNCHANGED <<state_path, seen_keys, feed_state, files, srcIdx, all_new, articles,
                   emitted, seenAtStart, seenBefore, cycleKeys, outcomes, saveCalls,
                   saveOk, cycles, otherVars>>

\* The process dies at any point; its memory is gone, the files stay as
\* they are.
Crash ==
    /\ pc \notin {"new", "crashed"}
    /\ pc' = "crashed"
    /\ seen_keys' = {} /\ feed_state' = EmptyFeedState
    /\ srcIdx' = 0 /\ all_new' = <<>> /\ articles' = <<>>
    /\ emitted' = [k \in AllKeys |-> 0]
    /\ seenAtStart' = {} /\ seenBefore' = {} /\ cycleKeys' = {}
    /\ outcomes' = <<>> /\ saveCalls' = 0 /\ saveOk' = FALSE /\ lostSave' = FALSE
    /\ cycles' = 0
    /\ UNCHANGED <<state_path, files, otherVars>>

Next ==
    \/ Construct
    \/ PollStart
    \/ PollSource
    \/ CallSaveState
    \/ Crash

Spec == Init /\ [][Next]_vars

SaveNext ==
    \/ Construct
    \/ PollStart
    \/ PollSourceShort
    \/ CallSaveState
    \/ SaveOpen
    \/ SaveWriteSome
    \/ SaveWriteRest
    \/ SaveReplace
    \/ SaveFails
    \/ Crash

SpecSave == SaveInit /\ [][SaveNext]_vars

\* ------------------------------------------------ run_continuous_polling
\* The documents of the cycle that has just returned, for the properties.
CycleDone == [cycleState |-> Serialize(seen_keys, feed_state),
              savedState |-> IF saveOk THEN Serialize(seen_keys, feed_state)
                             ELSE savedState]

\* Lines 282-289: the loop is entered, with or without a callback.
RunContinuousPolling ==
    /\ pc = "idle" /\ loopPc = "off"
    /\ loopPc' = "poll"
    /\ on_batch' \in BOOLEAN
    /\ savedState' = files.dest
    /\ UNCHANGED <<progVars, histVars, keyVars, toolVars, fetchVars, hookVars, lifeVars, runVars,
                   lastBatch, batchCalls, batchRaised, interrupted, cycleState>>

\* Line 290: new_data = self.poll_all_feeds()
LoopPoll == loopPc = "poll" /\ pc = "idle" /\ PollStart

\* How many articles of key k a batch holds.
InBatch(batch, k) ==
    Cardinality({ij \in {<<i, j>> : i \in 1..Len(batch), j \in 1..MaxFeedLen} :
                    /\ ij[2] <= Len(batch[ij[1]].items)
                    /\ batch[ij[1]].items[ij[2]].key = k})

\* Lines 291-293: poll_all_feeds has returned; on_batch(new_data) is called
\* if there is a callback.
LoopCallBatch ==
    /\ loopPc = "poll" /\ pc = "ret"
    /\ pc' = "idle"
    /\ cycleState' = CycleDone.cycleState
    /\ savedState' = CycleDone.savedState
    /\ IF on_batch
       THEN /\ loopPc' = "batch"
            /\ lastBatch' = all_new
            /\ batchCalls' = batchCalls + 1
            /\ delivered' = [k \in AllKeys |-> delivered[k] + InBatch(all_new, k)]
            /\ deliveredNow' = [k \in AllKeys |-> deliveredNow[k] + InBatch(all_new, k)]
            /\ durable' = IF saveOk
                          THEN durable \cup {k \in AllKeys : InBatch(all_new, k) > 0}
                          ELSE durable
       ELSE /\ loopPc' = "sleep"
            /\ UNCHANGED <<lastBatch, batchCalls, delivered, deliveredNow, durable>>
    /\ UNCHANGED <<state_path, seen_keys, feed_state, files, srcIdx, all_new, articles,
                   histVars, keyVars, toolVars, fetchVars, hookVars, lifeVars, run, on_batch,
                   batchRaised, interrupted>>

\* on_batch returns: line 296.
BatchReturns ==
    /\ loopPc = "batch"
    /\ loopPc' = "sleep"
    /\ UNCHANGED <<progVars, histVars, keyVars, toolVars, fetchVars, hookVars, lifeVars, runVars, on_batch, lastBatch,
                   batchCalls, batchRaised, interrupted, cycleState, savedState>>

\* on_batch raises an Exception: lines 294-295.
BatchRaises ==
    /\ loopPc = "batch"
    /\ loopPc' = OnBatchError
    /\ batchRaised' = TRUE
    /\ UNCHANGED <<progVars, histVars, keyVars, toolVars, fetchVars, hookVars, lifeVars, runVars, on_batch, lastBatch,
                   batchCalls, interrupted, cycleState, savedState>>

\* Line 297: time.sleep returns, the while loop starts over.
Wake ==
    /\ loopPc = "sleep"
    /\ cycles < MaxCycles
    /\ loopPc' = "poll"
    /\ UNCHANGED <<progVars, histVars, keyVars, toolVars, fetchVars, hookVars, lifeVars, runVars, on_batch, lastBatch,
                   batchCalls, batchRaised, interrupted, cycleState, savedState>>

\* A KeyboardInterrupt is raised in the main thread, wherever it is in the
\* loop: in a fetch, in a step of _save_state (whose except Exception does
\* not catch it; the with statement closes the temp file as it is), in
\* on_batch or in the sleep. Lines 298-299.
Interrupt ==
    /\ loopPc \in {"poll", "batch", "sleep"}
    /\ loopPc' = OnInterrupt
    /\ interrupted' = TRUE
    /\ pc' = "idle"
    /\ IF pc = "ret"
       THEN /\ cycleState' = CycleDone.cycleState
            /\ savedState' = CycleDone.savedState
       ELSE UNCHANGED <<cycleState, savedState>>
    /\ UNCHANGED <<state_path, seen_keys, feed_state, files, srcIdx, all_new, articles,
                   histVars, keyVars, toolVars, fetchVars, hookVars, lifeVars, runVars, on_batch, lastBatch,
                   batchCalls, batchRaised>>

LoopNext ==
    \/ Construct
    \/ RunContinuousPolling
    \/ LoopPoll
    \/ PollSourceLoop
    \/ CallSaveState
    \/ SaveOpen
    \/ SaveWriteSome
    \/ SaveWriteRest
    \/ SaveReplace
    \/ SaveFails
    \/ LoopCallBatch
    \/ BatchReturns
    \/ BatchRaises
    \/ Wake
    \/ Interrupt

SpecLoop == SaveInit /\ [][LoopNext]_vars

\* ------------------------------------------------ one run after another
\* Responses for the runs: a feed with nothing, or with one of two articles.
RunResponses ==
    { Response("response", 200, None, None, doc) :
         doc \in {<<>>} \cup { <<e>> : e \in { x \in EntryPool : x.title # <<"u">> } } }

PollSourceRuns == PollSourceFrom(RunResponses)

\* The process ends, killed at any point or exiting after
\* run_continuous_polling returned, and a new process is started on the
\* same files: its memory is new, the files are as they were left.
NextRun ==
    /\ run = "first" /\ loopPc # "off"
    /\ run' = "later"
    /\ pc' = "new"
    /\ seen_keys' = {} /\ feed_state' = EmptyFeedState
    /\ srcIdx' = 0 /\ all_new' = <<>> /\ articles' = <<>>
    /\ emitted' = [k \in AllKeys |-> 0]
    /\ seenAtStart' = {} /\ seenBefore' = {} /\ cycleKeys' = {}
    /\ outcomes' = <<>> /\ saveCalls' = 0 /\ saveOk' = FALSE /\ lostSave' = FALSE
    /\ cycles' = 0
    /\ loopPc' = "off" /\ on_batch' = FALSE /\ lastBatch' = <<>>
    /\ batchCalls' = 0 /\ batchRaised' = FALSE /\ interrupted' = FALSE
    /\ cycleState' = Absent /\ savedState' = Absent
    /\ deliveredNow' = [k \in AllKeys |-> 0]
    /\ UNCHANGED <<state_path, files, keyVars, toolVars, fetchVars, hookVars, lifeVars,
                   delivered, durable>>

\* A process with or without a state path.
RunsInit == SaveInit \/ Init

RunsNext ==
    \/ Construct
    \/ RunContinuousPolling
    \/ LoopPoll
    \/ PollSourceRuns
    \/ CallSaveState
    \/ SaveOpen
    \/ SaveWriteSome
    \/ SaveWriteRest
    \/ SaveReplace
    \/ SaveFails
    \/ LoopCallBatch
    \/ BatchReturns
    \/ BatchRaises
    \/ Wake
    \/ Interrupt
    \/ NextRun

SpecRuns == RunsInit /\ [][RunsNext]_vars

\* ---------------------------------------------- the webhook listener
\* A process with a listener built for one of the paths and no poller.
HookInit ==
    /\ pc = "new"
    /\ state_path = FALSE
    /\ seen_keys = {} /\ feed_state = EmptyFeedState
    /\ files = [dest |-> Absent, tmp |-> Absent]
    /\ srcIdx = 0 /\ all_new = <<>> /\ articles = <<>>
    /\ NoHistory
    /\ NoKeyCalls
    /\ NoFetchCalls
    /\ NoLoop
    /\ NoRuns
    /\ NoTools
    /\ \E p \in Paths : NewListener(p)

pollerVars == <<progVars, histVars, keyVars, toolVars, fetchVars, loopVars, runVars>>

\* WebhookListener.on, lines 80-82, and EventBus.on, lines 15-16.
On ==
    /\ Cardinality({i \in 1..Len(registered) : registered[i].handler \in Functions})
          < MaxOnCalls
    /\ \E event \in OnEvents, handler \in Functions :
          /\ _subs' = Subscribe(_subs, event, handler)
          /\ registered' = Append(registered, [event |-> event, handler |-> handler])
    /\ UNCHANGED <<pollerVars, lifeVars, path, _server, _thread, _handler_instance, conns, calls,
                   lastServed>>

\* The registrations of lines 76-78, from the i-th on.
RECURSIVE RegisterMethods(_, _)
RegisterMethods(r, i) ==
    IF i > Len(HandlerEvents) THEN r
    ELSE LET event == HandlerEvents[i] IN
         RegisterMethods([subs |-> Subscribe(r.subs, event, Method(event)),
                          log |-> Append(r.log, [event |-> event,
                                                 handler |-> Method(event)])],
                         i + 1)

\* WebhookListener.set_handler, lines 72-78, for the one handler object the
\* application has.
SetHandler ==
    /\ _handler_instance = "None"
    /\ _handler_instance' = "H"
    /\ LET r == RegisterMethods([subs |-> _subs, log |-> registered], 1) IN
          /\ _subs' = r.subs
          /\ registered' = r.log
    /\ UNCHANGED <<pollerVars, lifeVars, path, _server, _thread, conns, calls, lastServed>>

\* WebhookListener.start, lines 84-89, on a listener that is not listening
\* and whose port is free, taken as one step.
StartListener ==
    /\ _server = "None"
    /\ _server' = NewServer(sockets)
    /\ _thread' = "thread"
    /\ sockets' = [sockets EXCEPT ![NewServer(sockets)] = "serving"]
    /\ UNCHANGED <<pollerVars, port, caller, callLog, path, _subs, conns, calls, registered, _handler_instance,
                   lastServed>>

\* WebhookListener.stop, lines 91-98, taken as one step. The threads of the open connections
\* are daemon threads that server_close does not wait for.
StopListener ==
    /\ IF _server = "None"
       THEN UNCHANGED <<_server, _thread, sockets>>
       ELSE /\ _server' = "None" /\ _thread' = "None"
            /\ sockets' = [sockets EXCEPT ![_server] = "closed"]
    /\ UNCHANGED <<pollerVars, port, caller, callLog, path, _subs, conns, calls, registered, _handler_instance,
                   lastServed>>

\* The callables registered for an event so far, in the order of their
\* registration.
RegisteredFor(event) ==
    LET regs == SelectSeq(registered, LAMBDA r : r.event = event)
    IN [i \in 1..Len(regs) |-> regs[i].handler]

InFlight == {c \in ConnIds : conns[c].pc # "free"}

\* The serving thread accepts a connection and starts a thread for it, which
\* reads the request line and the headers of one of the requests given; at
\* most `limit` connections are open.
AcceptFrom(requests, limit) ==
    /\ \E s \in ServerNames : sockets[s] = "serving"
    /\ Cardinality(InFlight) < limit
    /\ \E req \in requests :
          LET c == CHOOSE x \in ConnIds \ InFlight : \A y \in ConnIds \ InFlight : x <= y
          IN conns' = [conns EXCEPT ![c] =
                          Conn("accepted", req, JsonMissing, JsonMissing, FALSE, 0, 0, "",
                               0)]
    /\ UNCHANGED <<pollerVars, lifeVars, path, _subs, _server, _thread, calls, registered,
                   _handler_instance, lastServed>>

\* Clients that post one request after the other.
Accept == AcceptFrom(Requests, 1)

\* _Handler.do_POST up to the call of emit and the first test of its loop:
\* lines 30-50 and 19.
DoPost(c) ==
    /\ conns[c].pc = "accepted"
    /\ LET req == conns[c].req
           p == ParsePayload(req.body)
       IN IF req.path # PathAllowed(path)
          THEN /\ conns' = [conns EXCEPT ![c] =
                               Conn("done", req, JsonMissing, JsonMissing, FALSE, 0, 404, "", 0)]
               /\ UNCHANGED _subs
          ELSE IF p.error # ""
          THEN /\ conns' = [conns EXCEPT ![c] =
                               Conn("done", req, JsonMissing, JsonMissing, FALSE, 0, 400,
                                    "Bad payload: " \o p.error, 0)]
               /\ UNCHANGED _subs
          ELSE IF ~Hashable(p.event)
          THEN \* self._subs.get raises TypeError, which leaves do_POST: the
               \* connection is closed without a response.
               /\ conns' = [conns EXCEPT ![c] =
                               Conn("died", req, p.event, p.data, FALSE, 0, 0, "", 0)]
               /\ UNCHANGED _subs
          ELSE /\ conns' = [conns EXCEPT ![c] =
                               Conn("emit", req, p.event, p.data, HasKey(_subs, p.event),
                                    1, 0, "", Len(RegisteredFor(p.event.val)))]
               /\ _subs' = SubsAfterGet(_subs, p.event)
    /\ UNCHANGED <<pollerVars, lifeVars, path, _server, _thread, calls, registered,
                   _handler_instance, lastServed>>

EmitList(c) == HandlersFor(_subs, conns[c].event, conns[c].live)

\* emit keeping its argument on the bus, where the emit called last
\* overwrites it.
CallDataShared(c) ==
    LET open == {x \in ConnIds : conns[x].pc \in {"emit", "callback"}}
    IN conns[CHOOSE x \in open : \A y \in open : y <= x].data

\* Line 21, h(data): data is the argument of this call of emit.
CallData(c) == conns[c].data

\* Line 21: the next handler of the list is called.
CallbackBegin(c) ==
    /\ conns[c].pc = "emit"
    /\ conns[c].idx <= Len(EmitList(c))
    /\ conns' = [conns EXCEPT ![c].pc = "callback"]
    /\ calls' = Append(calls, [conn |-> c, handler |-> EmitList(c)[conns[c].idx],
                               data |-> CallData(c), outcome |-> "running"])
    /\ UNCHANGED <<pollerVars, lifeVars, path, _subs, _server, _thread, registered,
                   _handler_instance, lastServed>>

\* The call of connection c that is running.
Running(c) == CHOOSE i \in 1..Len(calls) : calls[i].conn = c /\ calls[i].outcome = "running"

\* The handler returns.
CallbackReturns(c) ==
    /\ conns[c].pc = "callback"
    /\ conns' = [conns EXCEPT ![c].pc = "emit", ![c].idx = @ + 1]
    /\ calls' = [calls EXCEPT ![Running(c)].outcome = "returned"]
    /\ UNCHANGED <<pollerVars, lifeVars, path, _subs, _server, _thread, registered,
                   _handler_instance, lastServed>>

\* The handler raises an Exception: lines 22-23.
CallbackRaises(c) ==
    /\ conns[c].pc = "callback"
    /\ conns' = [conns EXCEPT ![c].pc = OnCallbackError, ![c].idx = @ + 1]
    /\ calls' = [calls EXCEPT ![Running(c)].outcome = "raised"]
    /\ UNCHANGED <<pollerVars, lifeVars, path, _subs, _server, _thread, registered,
                   _handler_instance, lastServed>>

\* The loop of emit ends and emit returns; lines 52-54 send the response.
EmitReturns(c) ==
    /\ conns[c].pc = "emit"
    /\ conns[c].idx > Len(EmitList(c))
    /\ LET raised == \E i \in 1..Len(calls) :
                         calls[i].conn = c /\ calls[i].outcome = "raised"
       IN conns' = [conns EXCEPT ![c].pc = "done", ![c].status = EmitStatus(raised),
                                 ![c].sent = "OK"]
    /\ UNCHANGED <<pollerVars, lifeVars, path, _subs, _server, _thread, calls, registered,
                   _handler_instance, lastServed>>

\* The connection is closed and its thread ends.
Close(c) ==
    /\ conns[c].pc \in {"done", "died"}
    /\ conns' = [conns EXCEPT ![c] = FreeConn]
    /\ calls' = SelectSeq(calls, LAMBDA x : x.conn # c)
    /\ lastServed' = conns[c].status
    /\ UNCHANGED <<pollerVars, lifeVars, path, _subs, _server, _thread, _handler_instance,
                   registered>>

HookNext ==
    \/ On
    \/ SetHandler
    \/ StartListener
    \/ StopListener
    \/ Accept
    \/ \E c \in ConnIds :
          \/ DoPost(c)
          \/ CallbackBegin(c)
          \/ CallbackReturns(c)
          \/ CallbackRaises(c)
          \/ EmitReturns(c)
          \/ Close(c)

SpecHook == HookInit /\ [][HookNext]_vars

\* ------------------------------------- start and stop, one line at a time
\* A process with a listener built on the default path, for a fixed port or
\* for port 0, and no poller.
LifeInit ==
    /\ pc = "new"
    /\ state_path = FALSE
    /\ seen_keys = {} /\ feed_state = EmptyFeedState
    /\ files = [dest |-> Absent, tmp |-> Absent]
    /\ srcIdx = 0 /\ all_new = <<>> /\ articles = <<>>
    /\ NoHistory
    /\ NoKeyCalls
    /\ NoFetchCalls
    /\ NoLoop
    /\ NoRuns
    /\ NoTools
    /\ \E pt \in Ports : Listener(pt, DefaultPath)

Logged(outcome) == <<callLog[2], outcome>>

\* start(), lines 85-86: the server object is built, which binds and
\* listens, and is assigned to self._server. A failing bind raises OSError
\* out of start() before the assignment. Nothing in start() asks whether the
\* listener is started already.
StartBind ==
    /\ caller = "idle"
    /\ \E s \in ServerNames : sockets[s] = "closed"
    /\ \E outcome \in BindOutcomes(port, sockets) :
          IF outcome = "bound"
          THEN /\ sockets' = [sockets EXCEPT ![NewServer(sockets)] = "bound"]
               /\ _server' = NewServer(sockets)
               /\ caller' = "starting"
               /\ UNCHANGED callLog
          ELSE /\ callLog' = Logged("start_raised")
               /\ UNCHANGED <<sockets, _server, caller>>
    /\ UNCHANGED <<pollerVars, port, path, _subs, _thread, _handler_instance, conns,
                   calls, registered, lastServed>>

\* start(), lines 87-89: the serving thread is created and started, and
\* start() returns while serve_forever accepts connections on that thread.
StartServe ==
    /\ caller = "starting"
    /\ _thread' = "thread"
    /\ sockets' = [sockets EXCEPT ![_server] = "serving"]
    /\ caller' = "idle"
    /\ callLog' = Logged("start_ok")
    /\ UNCHANGED <<pollerVars, port, path, _subs, _server, _handler_instance, conns,
                   calls, registered, lastServed>>

\* stop(), lines 92-93: without a server stop() returns; with one,
\* shutdown() returns when serve_forever has left its loop. None has no
\* shutdown, so that going on without a server would raise AttributeError.
StopShutdown ==
    /\ caller = "idle"
    /\ IF ~StopHasServer(_server)
       THEN /\ callLog' = Logged("stop_noop")
            /\ UNCHANGED <<sockets, caller>>
       ELSE IF _server = "None"
       THEN /\ callLog' = Logged("stop_raised")
            /\ UNCHANGED <<sockets, caller>>
       ELSE /\ sockets' = [sockets EXCEPT ![_server] = "shut"]
            /\ caller' = "stop_close"
            /\ UNCHANGED callLog
    /\ UNCHANGED <<pollerVars, port, path, _subs, _server, _thread, _handler_instance,
                   conns, calls, registered, lastServed>>

\* stop(), lines 94-95: server_close() closes the listening socket; the
\* threads of the open connections are daemon threads, which it does not
\* join. Then the handle is dropped.
StopClose ==
    /\ caller = "stop_close"
    /\ sockets' = [sockets EXCEPT ![_server] = "closed"]
    /\ _server' = "None"
    /\ caller' = "stop_join"
    /\ UNCHANGED <<pollerVars, port, callLog, path, _subs, _thread, _handler_instance,
                   conns, calls, registered, lastServed>>

\* stop(), lines 96-98: the serving thread, which shutdown() has waited for,
\* is joined with a timeout of two seconds, and stop() returns.
StopJoin ==
    /\ caller = "stop_join"
    /\ _thread' = "None"
    /\ caller' = "idle"
    /\ callLog' = Logged("stop_ok")
    /\ UNCHANGED <<pollerVars, port, sockets, path, _subs, _server, _handler_instance,
                   conns, calls, registered, lastServed>>

\* The requests posted while the listener is started and stopped.
LifeRequests ==
    { Request(DefaultPath, Body("json", "object", Json("string", "market_added"),
                                Json("object", "d1"))),
      Request(DefaultPath, NoBody("not_json")) }

LifeAccept == AcceptFrom(LifeRequests, 1)

LifeNext ==
    \/ On
    \/ StartBind
    \/ StartServe
    \/ StopShutdown
    \/ StopClose
    \/ StopJoin
    \/ LifeAccept
    \/ \E c \in ConnIds :
          \/ DoPost(c)
          \/ CallbackBegin(c)
          \/ CallbackReturns(c)
          \/ CallbackRaises(c)
          \/ EmitReturns(c)
          \/ Close(c)

SpecLife == LifeInit /\ [][LifeNext]_vars

\* ------------------------------------------- requests handled concurrently
\* Two well-formed requests for the event that has callbacks, told apart by
\* their data.
ConcRequests ==
    { Request(DefaultPath, Body("json", "object", Json("string", "market_added"), d)) :
         d \in {Json("object", "d1"), JsonMissing} }

\* ThreadingHTTPServer starts a thread per connection: up to MaxConns
\* requests are in flight at once.
ConcAccept == AcceptFrom(ConcRequests, MaxConns)

\* The application's start-up: on("market_added", f), on("market_added", g)
\* and start() on a listener constructed on the default path.
ConcRegistered ==
    << [event |-> "market_added", handler |-> "f"],
       [event |-> "market_added", handler |-> "g"] >>

ConcInit ==
    /\ pc = "new"
    /\ state_path = FALSE
    /\ seen_keys = {} /\ feed_state = EmptyFeedState
    /\ files = [dest |-> Absent, tmp |-> Absent]
    /\ srcIdx = 0 /\ all_new = <<>> /\ articles = <<>>
    /\ NoHistory
    /\ NoKeyCalls
    /\ NoFetchCalls
    /\ NoLoop
    /\ NoRuns
    /\ NoTools
    /\ port = "fixed" /\ caller = "idle" /\ callLog = NoCalls
    /\ path = DefaultPath
    /\ registered = ConcRegistered
    /\ _subs = Subscribe(Subscribe(EmptySubs, "market_added", "f"), "market_added", "g")
    /\ _server = NewServer(NoSockets) /\ _thread = "thread"
    /\ sockets = [NoSockets EXCEPT ![NewServer(NoSockets)] = "serving"]
    /\ _handler_instance = "None"
    /\ conns = [c \in ConnIds |-> FreeConn]
    /\ calls = <<>> /\ lastServed = -1

ConcNext ==
    \/ ConcAccept
    \/ \E c \in ConnIds :
          \/ DoPost(c)
          \/ CallbackBegin(c)
          \/ CallbackReturns(c)
          \/ CallbackRaises(c)
          \/ EmitReturns(c)
          \/ Close(c)

SpecConc == ConcInit /\ [][ConcNext]_vars

\* ------------------------------------------------- loading, on its own
\* State files of every shape _load_state distinguishes.
KeyL == make_article_key(Entry(None, <<"l">>, None, None, None))
LoadSeenFields ==
    { <<"list", items>> : items \in {<<>>, <<KeyA>>, <<KeyL>>, <<KeyA, KeyL>>} }
    \cup { <<"string", <<<<"a">>>>>>, <<"number", <<>>>>, <<"missing", <<>>>> }
OtherValidators ==
    [s \in Sources |-> IF s = Feeds[1] THEN FileValidator(TRUE, None)
                       ELSE FileValidator(TRUE, <<"e1">>)]
LoadFeedStateFields ==
    { <<"object", v>> : v \in {NoFileValidators, SomeValidators, OtherValidators} }
    \cup { <<"list", NoFileValidators>>, <<"bad_value", SomeValidators>>,
           <<"missing", NoFileValidators>> }
LoadFiles ==
    { NotJson(k) : k \in {"absent", "empty", "partial", "undecodable", "invalid_json"} }
    \cup { File("json", "list", "missing", <<>>, "missing", NoFileValidators) }
    \cup { File("json", "object", f[1][1], f[1][2], f[2][1], f[2][2]) :
              f \in LoadSeenFields \X LoadFeedStateFields }

LoadInit == \E has_path \in BOOLEAN, f \in LoadFiles : Start(has_path, f)

SpecLoad == LoadInit /\ [][Construct]_vars

\* ----------------------------------------- make_article_key, on its own
KeyEntries ==
    { Entry(id, link, title, published, None) :
        id \in {None, <<>>, <<"a">>, <<" ">>},
        link \in {None, <<>>, <<"l">>},
        title \in {None, <<" ", "t">>, <<"t">>},
        published \in {None, <<"1", " ">>, <<"1">>} }

KeyInit ==
    /\ pc = "new"
    /\ state_path = FALSE
    /\ seen_keys = {} /\ feed_state = EmptyFeedState
    /\ files = [dest |-> Absent, tmp |-> Absent]
    /\ srcIdx = 0 /\ all_new = <<>> /\ articles = <<>>
    /\ NoHistory
    /\ keyArgs \in KeyEntries \X KeyEntries
    /\ keyResults = <<>> /\ keyEmitted = <<>>
    /\ NoFetchCalls
    /\ NoLoop
    /\ NoRuns
    /\ NoTools
    /\ NoHook

\* make_article_key on both entries, and the loop of lines 266-272 on their
\* articles with nothing seen before.
MakeKeys ==
    /\ keyArgs # <<>> /\ keyResults = <<>>
    /\ keyResults' = [i \in 1..2 |-> make_article_key(keyArgs[i])]
    /\ keyEmitted' =
          DedupLoop([i \in 1..2 |-> MakeArticle(keyArgs[i], Feeds[1])], {}, <<>>).new_items
    /\ UNCHANGED <<keyArgs, toolVars, progVars, histVars, fetchVars, loopVars, hookVars, lifeVars, runVars>>

SpecKey == KeyInit /\ [][MakeKeys]_vars

\* ------------------------------------------ fetch_feed_data, on its own
\* The validators a poller may hold for its first source before a fetch:
\* none, an etag loaded from the state file (line 158 loads no modified), or
\* both from an earlier response.
FetchStates ==
    { [EmptyFeedState EXCEPT ![Feeds[1]] = v] :
         v \in { NoValidator,
                 [present |-> TRUE, etag |-> <<"e0">>, modified |-> None],
                 [present |-> TRUE, etag |-> <<"e0">>, modified |-> <<"m0">>] } }

\* A poller with such validators, and one response of those a fetch may meet.
FetchInit ==
    /\ pc = "idle"
    /\ state_path = FALSE
    /\ seen_keys = {} /\ feed_state \in FetchStates
    /\ files = [dest |-> Absent, tmp |-> Absent]
    /\ srcIdx = 0 /\ all_new = <<>> /\ articles = <<>>
    /\ NoHistory
    /\ NoKeyCalls
    /\ fetchArg \in Responses
    /\ fetchResult = NotFetched
    /\ NoLoop
    /\ NoRuns
    /\ NoTools
    /\ NoHook

\* fetch_feed_data(feed_url, source_name) for the first source.
FetchFeedData ==
    /\ ~fetchResult.called
    /\ LET got == fetch_feed_data(feed_state, Feeds[1], fetchArg) IN
          /\ fetchResult' = [called |-> TRUE, escaped |-> got.escaped,
                             articles |-> got.articles]
          /\ feed_state' = got.feed_state
    /\ UNCHANGED <<pc, state_path, seen_keys, files, srcIdx, all_new, articles,
                   histVars, keyVars, toolVars, fetchArg, loopVars, hookVars, lifeVars, runVars>>

SpecFetch == FetchInit /\ [][FetchFeedData]_vars

\* ------------------------------------------- QdrantHandler and its worker
appVars == <<progVars, histVars, keyVars, fetchVars, loopVars, hookVars, lifeVars, runVars>>

\* QdrantHandler.__init__ of either module, with the collection empty; the
\* queued one has started its worker (lines 28-33).
QueueInit ==
    /\ pc = "new"
    /\ state_path = FALSE
    /\ seen_keys = {} /\ feed_state = EmptyFeedState
    /\ files = [dest |-> Absent, tmp |-> Absent]
    /\ srcIdx = 0 /\ all_new = <<>> /\ articles = <<>>
    /\ NoHistory
    /\ NoKeyCalls
    /\ NoFetchCalls
    /\ NoLoop
    /\ NoRuns
    /\ NoHook
    /\ NoRequestCalls
    /\ handlerKind \in {"direct", "queued"}
    /\ max_markets \in MaxMarketsChoices
    /\ _market_queue = <<>>
    /\ _running = (handlerKind = "queued")
    /\ worker = IF handlerKind = "queued" THEN NewWorker ELSE NoWorker
    /\ evts = [e \in EventIds |-> FreeEvt]
    /\ index = {} /\ shutdownPc = "idle"
    /\ enqueued = <<>> /\ taken = <<>>
    /\ acked = {} /\ ordered = {} /\ lateAdded = {}

\* The calls of on_market_added that have not returned.
AddedInFlight(m) ==
    \E x \in EventIds :
       evts[x].event = "added" /\ evts[x].pc = "called" /\ m \in Range(evts[x].markets)

ResolvedReceived(m) ==
    \E x \in EventIds :
       evts[x].event = "resolved" /\ evts[x].pc # "free" /\ m \in Range(evts[x].markets)

\* emit calls on_market_added or on_market_resolved on the thread of a
\* request, with the markets of the event.
Receive ==
    \E e \in EventIds :
       /\ evts[e].pc = "free" /\ \A x \in 1..(e - 1) : evts[x].pc # "free"
       /\ \/ \E payload \in AddedPayloads :
               /\ evts' = [evts EXCEPT ![e] = [pc |-> "called", event |-> "added",
                                               markets |-> payload, i |-> 1, out |-> "none"]]
               /\ lateAdded' = lateAdded \cup {m \in Range(payload) : ResolvedReceived(m)}
               /\ UNCHANGED ordered
          \/ \E payload \in ResolvedPayloads :
               /\ evts' = [evts EXCEPT ![e] = [pc |-> "called", event |-> "resolved",
                                               markets |-> payload, i |-> 1, out |-> "none"]]
               /\ ordered' = ordered \cup
                                {m \in Range(payload) : m \in acked /\ ~AddedInFlight(m)}
               /\ UNCHANGED lateAdded
       /\ UNCHANGED <<appVars, reqVars, handlerKind, max_markets, _market_queue, _running,
                      worker, index, shutdownPc, enqueued, taken, acked>>

Returned(e, out) == [evts EXCEPT ![e].pc = "returned", ![e].out = out]

\* qdrant_handler.py, lines 31-57: one turn of the loop of on_market_added,
\* or its return; an exception leaves the method and is caught by emit.
DirectAdded(e) ==
    /\ handlerKind = "direct"
    /\ evts[e].pc = "called" /\ evts[e].event = "added"
    /\ LET markets == Truncate(evts[e].markets, max_markets)
           i == evts[e].i
       IN IF i > Len(markets)
          THEN /\ evts' = Returned(e, "ok")
               /\ acked' = acked \cup Range(evts[e].markets)
               /\ UNCHANGED index
          ELSE \E o \in MarketOutcomes(markets[i]) :
                 CASE o = "ok" ->
                        /\ index' = index \cup {generate_uuid(markets[i])}
                        /\ evts' = [evts EXCEPT ![e].i = i + 1]
                        /\ UNCHANGED acked
                   [] o = "no_embeddings" ->
                        /\ evts' = [evts EXCEPT ![e].i = i + 1]
                        /\ UNCHANGED <<index, acked>>
                   [] OTHER ->
                        /\ evts' = Returned(e, "raised")
                        /\ acked' = acked \cup Range(evts[e].markets)
                        /\ UNCHANGED index
    /\ UNCHANGED <<appVars, reqVars, handlerKind, max_markets, _market_queue, _running,
                   worker, shutdownPc, enqueued, taken, ordered, lateAdded>>

\* qdrant_handler_queued.py, lines 89-101: on_market_added puts the batch on
\* the queue and returns.
QueuedAdded(e) ==
    /\ handlerKind = "queued"
    /\ evts[e].pc = "called" /\ evts[e].event = "added"
    /\ LET markets == Truncate(evts[e].markets, max_markets) IN
          /\ _market_queue' = Append(_market_queue, markets)
          /\ enqueued' = Append(enqueued, markets)
    /\ evts' = Returned(e, "ok")
    /\ acked' = acked \cup Range(evts[e].markets)
    /\ UNCHANGED <<appVars, reqVars, handlerKind, max_markets, _running, worker, index,
                   shutdownPc, taken, ordered, lateAdded>>

\* on_market_resolved of either handler (lines 59-69, lines 103-117): the
\* points of the markets are deleted, or client.delete raises, which the
\* queued handler logs and emit catches for the direct one.
Resolved(e) ==
    /\ evts[e].pc = "called" /\ evts[e].event = "resolved"
    /\ IF evts[e].markets = <<>>
       THEN evts' = Returned(e, "ok") /\ UNCHANGED index
       ELSE \/ /\ index' = index \ {generate_uuid(m) : m \in Range(evts[e].markets)}
               /\ evts' = Returned(e, "ok")
            \/ /\ evts' = Returned(e, "raised")
               /\ UNCHANGED index
    /\ UNCHANGED <<appVars, reqVars, handlerKind, max_markets, _market_queue, _running,
                   worker, shutdownPc, enqueued, taken, acked, ordered, lateAdded>>

\* Line 43: the loop test of _process_queue.
WorkerTest ==
    /\ worker.pc = "test"
    /\ worker' = [worker EXCEPT !.pc = IF LoopTest(_running) THEN "get" ELSE "exited"]
    /\ UNCHANGED <<appVars, reqVars, handlerKind, max_markets, _market_queue, _running, evts,
                   index, shutdownPc, enqueued, taken, acked, ordered, lateAdded>>

\* Lines 45 and 50-51: get returns the batch at the head of the queue, or
\* raises queue.Empty after a second without one.
WorkerGet ==
    /\ worker.pc = "get"
    /\ IF _market_queue # <<>>
       THEN /\ worker' = [pc |-> "process", markets |-> QueueGet(_market_queue), i |-> 1]
            /\ taken' = Append(taken, QueueGet(_market_queue))
            /\ _market_queue' = QueueRest(_market_queue)
       ELSE /\ worker' = [worker EXCEPT !.pc = "test"]
            /\ UNCHANGED <<taken, _market_queue>>
    /\ UNCHANGED <<appVars, reqVars, handlerKind, max_markets, _running, evts, index,
                   shutdownPc, enqueued, acked, ordered, lateAdded>>

BatchLeft(to) == [pc |-> to, markets |-> <<>>, i |-> 0]

\* Lines 58-85: one turn of the loop of _process_markets. The handler of
\* line 83 calls market.get, which raises AttributeError on an element that
\* is no dict: that exception leaves _process_markets and is caught at
\* line 52.
WorkerMarket ==
    /\ worker.pc = "process" /\ worker.i <= Len(worker.markets)
    /\ \E o \in MarketOutcomes(worker.markets[worker.i]) :
         CASE o = "ok" ->
                /\ index' = index \cup {generate_uuid(worker.markets[worker.i])}
                /\ worker' = [worker EXCEPT !.i = worker.i + 1]
           [] o = "not_a_dict" ->
                /\ worker' = BatchLeft(OnBatchException)
                /\ UNCHANGED index
           [] OTHER ->
                /\ worker' = IF o = "no_embeddings" \/ OnMarketException = "continue"
                             THEN [worker EXCEPT !.i = worker.i + 1]
                             ELSE [worker EXCEPT !.i = Len(worker.markets) + 1]
                /\ UNCHANGED index
    /\ UNCHANGED <<appVars, reqVars, handlerKind, max_markets, _market_queue, _running, evts,
                   shutdownPc, enqueued, taken, acked, ordered, lateAdded>>

\* Lines 87 and 48-49: the batch is done, task_done, back to the loop test.
WorkerBatchDone ==
    /\ worker.pc = "process" /\ worker.i > Len(worker.markets)
    /\ worker' = BatchLeft("test")
    /\ UNCHANGED <<appVars, reqVars, handlerKind, max_markets, _market_queue, _running, evts,
                   index, shutdownPc, enqueued, taken, acked, ordered, lateAdded>>

WorkerStep == WorkerTest \/ WorkerGet \/ WorkerMarket \/ WorkerBatchDone

\* shutdown, lines 122-127: the flag is cleared and the worker joined.
Shutdown ==
    /\ handlerKind = "queued" /\ shutdownPc = "idle"
    /\ _running' = FALSE
    /\ shutdownPc' = "join"
    /\ UNCHANGED <<appVars, reqVars, handlerKind, max_markets, _market_queue, worker, evts,
                   index, enqueued, taken, acked, ordered, lateAdded>>

\* Line 127-128: join(timeout=5) returns when the worker has ended or five
\* seconds have passed, whichever is first.
ShutdownReturn ==
    /\ shutdownPc = "join"
    /\ shutdownPc' = "returned"
    /\ UNCHANGED <<appVars, reqVars, handlerKind, max_markets, _market_queue, _running,
                   worker, evts, index, enqueued, taken, acked, ordered, lateAdded>>

QueueNext ==
    \/ Receive
    \/ \E e \in EventIds : DirectAdded(e) \/ QueuedAdded(e) \/ Resolved(e)
    \/ WorkerTest
    \/ WorkerGet
    \/ WorkerMarket
    \/ WorkerBatchDone
    \/ Shutdown
    \/ ShutdownReturn

SpecQueue == QueueInit /\ [][QueueNext]_vars

\* The worker thread is scheduled as long as it can run, and the join of
\* shutdown ends.
SpecQueueFair ==
    SpecQueue /\ WF_vars(WorkerStep) /\ WF_vars(ShutdownReturn)

\* ------------------------------------------------- a call of _request
\* A client built with retries in 0..MaxRetries and a backoff of 1 or 2
\* units, with or without the L1 key.
RequestInit ==
    /\ pc = "new"
    /\ state_path = FALSE
    /\ seen_keys = {} /\ feed_state = EmptyFeedState
    /\ files = [dest |-> Absent, tmp |-> Absent]
    /\ srcIdx = 0 /\ all_new = <<>> /\ articles = <<>>
    /\ NoHistory
    /\ NoKeyCalls
    /\ NoFetchCalls
    /\ NoLoop
    /\ NoRuns
    /\ NoHook
    /\ NoQueue
    /\ retries \in 0..MaxRetries
    /\ backoff \in 1..MaxBackoff
    /\ permissions \in {{}, {"L1"}}
    /\ required \in {"None", "L1"}
    /\ reqPc = "idle" /\ attempt = 0 /\ last_exc = "None"
    /\ tried = <<>> /\ slept = <<>>

\* Lines 89-93 and 104: the access check, and the entry into the loop, which
\* has no turn if retries is 0.
RequestCall ==
    /\ reqPc = "idle"
    /\ IF ~_check_access(required, permissions)
       THEN reqPc' = "raised" /\ last_exc' = "PermissionError" /\ UNCHANGED attempt
       ELSE IF retries < 1
       THEN reqPc' = "raised" /\ last_exc' = "RuntimeError" /\ UNCHANGED attempt
       ELSE reqPc' = "attempt" /\ attempt' = 1 /\ UNCHANGED last_exc
    /\ UNCHANGED <<appVars, queueVars, retries, backoff, permissions, required, tried, slept>>

\* Lines 94-101: one attempt and what follows it.
Attempt ==
    /\ reqPc = "attempt"
    /\ \E o \in AttemptOutcomes :
          /\ tried' = Append(tried, o)
          /\ IF o = "response"
             THEN reqPc' = "returned" /\ UNCHANGED last_exc
             ELSE IF ~Caught(o)
             THEN reqPc' = "raised" /\ last_exc' = o
             ELSE /\ last_exc' = o
                  /\ reqPc' = IF IsLast(attempt, retries) THEN "raised" ELSE "sleep"
    /\ UNCHANGED <<appVars, queueVars, retries, backoff, permissions, required, attempt, slept>>

\* Line 102 and the next turn of the loop.
Sleep ==
    /\ reqPc = "sleep"
    /\ slept' = Append(slept, SleepFor(backoff, attempt))
    /\ attempt' = attempt + 1
    /\ reqPc' = "attempt"
    /\ UNCHANGED <<appVars, queueVars, retries, backoff, permissions, required, last_exc, tried>>

RequestNext == RequestCall \/ Attempt \/ Sleep

SpecRequest == RequestInit /\ [][RequestNext]_vars

\* ================================================================ properties
InCycle == pc \in {"loop", "save", "opened", "partial", "written", "ret"}

\* The elements of seq at the positions in idx, in order.
RECURSIVE PickInOrder(_, _)
PickInOrder(seq, idx) ==
    IF idx = {} THEN <<>>
    ELSE LET i == CHOOSE x \in idx : \A y \in idx : x <= y
         IN <<seq[i]>> \o PickInOrder(seq, idx \ {i})

\* The articles of arts whose key is not in seen, first occurrence only.
ExpectedNew(arts, seen) ==
    PickInOrder(arts, { i \in 1..Len(arts) :
                          /\ arts[i].key \notin seen
                          /\ \A j \in 1..(i - 1) : arts[j].key # arts[i].key })

LastOutcome == outcomes[Len(outcomes)]

\* C1: over all cycles and sources of one poller instance, every fingerprint
\* is in the returned batches at most once, also when one feed lists two
\* entries with the same key in one cycle.
C1_NoDuplicateEmission == \A k \in AllKeys : emitted[k] <= 1

\* A second cycle in which a feed listed the same key twice, emitted once.
C1_Witness ==
    /\ cycles = 2 /\ Len(articles) = 2
    /\ articles[1].key = articles[2].key
    /\ articles[1] # articles[2]
    /\ emitted[articles[1].key] = 1

\* C2: for each source the list returned is exactly the fetched articles
\* whose key was unseen when examined, in the fetcher's order, and on return
\* seen_keys is the former seen_keys plus the keys of everything fetched.
C2_ExactlyTheUnseen ==
    /\ (InCycle /\ outcomes # <<>>) =>
          LET n == Len(outcomes) IN
          /\ all_new[n].source = Feeds[n]
          /\ all_new[n].items = ExpectedNew(articles, seenBefore)
          /\ seen_keys = seenBefore \cup Keys(articles)
    /\ pc = "ret" => seen_keys = seenAtStart \cup cycleKeys

\* A fetched list whose first article was seen and dropped and whose second
\* was new and emitted.
C2_Witness ==
    /\ InCycle /\ outcomes # <<>>
    /\ Len(articles) = 2
    /\ articles[1].key \in seenBefore
    /\ all_new[Len(outcomes)].items = <<articles[2]>>

\* C3: the state file changes only by the rename of the completely written
\* temp file; a crash or a failed write at any earlier step leaves it as it
\* was, and it never holds an empty or partial document.
C3_OnlyRenameChangesStateFile ==
    [][ /\ files'.dest.kind \notin {"empty", "partial"}
        /\ files'.dest # files.dest =>
              /\ pc = "written" /\ pc' = "ret"
              /\ files'.dest = files.tmp
              /\ files.tmp = Serialize(seen_keys, feed_state) ]_vars

\* A crash in mid-write: the temp file is partial, the state file is the
\* one that this process saved in its first cycle.
C3_Witness ==
    /\ pc = "crashed"
    /\ files.tmp.kind = "partial"
    /\ files.dest.kind = "json"
    /\ files.dest.seen_items = SortedKeys(AllKeys)

\* C4: _save_state is called once per cycle, after all sources; after a
\* cycle whose save succeeded the persisted fingerprints are those in memory;
\* a cycle that fetches only what is already seen returns empty lists.
C4_OneSavePerCycle ==
    /\ saveCalls <= 1
    /\ saveCalls = 1 => Len(outcomes) = Len(Feeds)
    /\ pc = "ret" => saveCalls = 1
    /\ (pc = "ret" /\ saveOk) =>
          /\ files.dest.kind = "json"
          /\ Range(files.dest.seen_items) = seen_keys
          /\ Len(files.dest.seen_items) = Cardinality(seen_keys)
    /\ (pc = "ret" /\ cycleKeys \subseteq seenAtStart) =>
          \A i \in 1..Len(all_new) : all_new[i].items = <<>>

\* The second poll of a poller that started with nothing seen: the feeds list
\* what the first poll emitted and persisted, and every list is empty.
C4_Witness ==
    /\ pc = "ret" /\ saveOk /\ cycles = 2
    /\ cycleKeys = AllKeys /\ seenAtStart = AllKeys
    /\ \A k \in AllKeys : emitted[k] = 1
    /\ Len(files.dest.seen_items) = Cardinality(AllKeys)
    /\ \A i \in 1..Len(all_new) : all_new[i].items = <<>>

\* C5: a fetch that raises gives an empty list for its source and adds
\* nothing to seen_keys; the later sources are still fetched and their new
\* articles emitted, the state is saved, and poll_all_feeds does not raise.
C5_FailedFetchIsIsolated ==
    /\ pc # "raised"
    /\ (InCycle /\ outcomes # <<>> /\ LastOutcome = "error") =>
          /\ articles = <<>>
          /\ seen_keys = seenBefore
          /\ all_new[Len(outcomes)].items = <<>>
    /\ (InCycle /\ \E i \in 1..(Len(outcomes) - 1) : outcomes[i] = "error") =>
          all_new[Len(outcomes)].items = ExpectedNew(articles, seenBefore)
    /\ pc = "ret" => (Len(outcomes) = Len(Feeds) /\ saveCalls = 1)

\* The first source failed, the second emitted an article, the state was saved.
C5_Witness ==
    /\ pc = "ret" /\ saveOk
    /\ outcomes = <<"error", "200">>
    /\ all_new[1].items = <<>> /\ all_new[2].items # <<>>
    /\ files.dest.seen_items # <<>>

\* C6: a failing write of the state file raises nothing and the batch is
\* returned with its fingerprints kept in memory; a later successful save
\* persists the fingerprints of every earlier cycle of the instance.
C6_SaveFailureLosesNothing ==
    /\ pc # "raised"
    /\ (pc = "ret" /\ state_path /\ ~saveOk) =>
          /\ Len(all_new) = Len(Feeds)
          /\ cycleKeys \subseteq seen_keys
          /\ \A k \in AllKeys : emitted[k] > 0 => k \in seen_keys
    /\ (pc = "ret" /\ saveOk) =>
          \A k \in AllKeys : emitted[k] > 0 => k \in Range(files.dest.seen_items)

\* The first cycle emitted a key and failed to save; the second cycle saved.
C6_Witness ==
    /\ pc = "ret" /\ saveOk /\ lostSave /\ cycles = 2
    /\ \E k \in seenAtStart : emitted[k] = 1 /\ k \in Range(files.dest.seen_items)

\* A file that is not JSON, or JSON that is not an object with a list of
\* fingerprints and an object of validator objects.
Unreadable(f) ==
    \/ f.kind \notin {"absent", "json"}
    \/ f.kind = "json" /\ f.top # "object"
    \/ f.kind = "json" /\ f.seen_shape \notin {"list", "missing"}
    \/ f.kind = "json" /\ f.fs_shape \notin {"object", "missing"}

\* C7: building a poller never fails; with the state file absent, or present
\* but not readable, not JSON, or JSON of the wrong shape in either field,
\* the poller starts with no fingerprints and no validators at all.
C7_LoadIsAllOrNothing ==
    pc = "idle" =>
       ((~state_path \/ files.dest.kind = "absent" \/ Unreadable(files.dest)) =>
           (seen_keys = {} /\ feed_state = EmptyFeedState))

\* C8: the mapping returned has one key per configured source, in
\* configuration order; a 304 or a failed fetch gives an empty list.
C8_EverySourceHasAKey ==
    /\ InCycle =>
          /\ Len(all_new) = Len(outcomes)
          /\ \A i \in 1..Len(all_new) : all_new[i].source = Feeds[i]
          /\ \A i \in 1..Len(all_new) :
                outcomes[i] \in {"304", "error"} => all_new[i].items = <<>>
    /\ pc = "ret" => Len(all_new) = Len(Feeds)

\* A returned mapping whose first source had nothing new and whose second
\* answered 304.
C8_Witness ==
    /\ pc = "ret" /\ outcomes = <<"200", "304">>
    /\ cycleKeys # {}
    /\ Len(all_new) = 2 /\ all_new[1].items = <<>> /\ all_new[2].items = <<>>

\* C9: a fetch answered 304 returns an empty list, adds nothing to seen_keys
\* and emits nothing for its source.
C9_NotModifiedAddsNothing ==
    (InCycle /\ outcomes # <<>> /\ LastOutcome = "304") =>
       /\ articles = <<>>
       /\ seen_keys = seenBefore
       /\ all_new[Len(outcomes)].items = <<>>
       /\ cycleKeys \subseteq seenBefore

\* The second source answered 304 after the first emitted something.
C9_Witness ==
    /\ pc = "loop" /\ outcomes = <<"200", "304">>
    /\ all_new[1].items # <<>> /\ all_new[2].items = <<>>
    /\ feed_state[Feeds[2]].present

\* C10: the key is the id when non-empty, else the link when non-empty, else
\* the stripped title and published string; entries with one non-empty id
\* have one key, so the second of them is not emitted after the first.
Spaces(n) == [i \in 1..n |-> " "]
IsStripOf(r, s) ==
    /\ \E i, j \in 0..Len(s) : s = Spaces(i) \o r \o Spaces(j)
    /\ r # <<>> => (r[1] # " " /\ r[Len(r)] # " ")
TextOf(x) == IF x = None THEN <<>> ELSE x

C10_KeyPriority ==
    keyResults # <<>> =>
       /\ \A i \in 1..2 :
             LET e == keyArgs[i]
                 k == keyResults[i]
                 hasId == e.id # None /\ Len(e.id) > 0
                 hasLink == e.link # None /\ Len(e.link) > 0
             IN /\ hasId => k = <<"i", "d", ":", ":">> \o e.id
                /\ (~hasId /\ hasLink) => k = <<"l", "i", "n", "k", ":", ":">> \o e.link
                /\ (~hasId /\ ~hasLink) =>
                      \E t \in SeqsUpTo(Range(TextOf(e.title)), Len(TextOf(e.title))),
                         p \in SeqsUpTo(Range(TextOf(e.published)), Len(TextOf(e.published))) :
                         /\ IsStripOf(t, TextOf(e.title))
                         /\ IsStripOf(p, TextOf(e.published))
                         /\ k = <<"t", "p", ":", ":">> \o t \o <<"|">> \o p
       /\ (keyArgs[1].id # None /\ keyArgs[1].id # <<>> /\ keyArgs[1].id = keyArgs[2].id) =>
             /\ keyResults[1] = keyResults[2]
             /\ Len(keyEmitted) = 1
             /\ keyEmitted[1].key = keyResults[1]

\* Two entries with the same id and another link, title and date.
C10_Witness ==
    /\ keyResults # <<>>
    /\ keyArgs[1].id = <<"a">> /\ keyArgs[2].id = <<"a">>
    /\ Truthy(keyArgs[1].link) /\ keyArgs[2].link = None
    /\ keyArgs[1].title # keyArgs[2].title
    /\ keyArgs[1].published # keyArgs[2].published
    /\ keyResults[1] = keyResults[2]
    /\ Len(keyEmitted) = 1

\* How often x is among the first n elements of seq.
Count(seq, n, x) == Cardinality({i \in 1..n : seq[i] = x})

Min(a, b) == IF a < b THEN a ELSE b

C12_BatchFailureKeepsLooping ==
    /\ loopPc # "failed"
    /\ (on_batch /\ loopPc = "poll") => batchCalls = cycles - (IF pc = "idle" THEN 0 ELSE 1)
    /\ (on_batch /\ loopPc \in {"batch", "sleep"}) =>
          /\ batchCalls = cycles
          /\ lastBatch = all_new
          /\ Len(lastBatch) = Len(Feeds)

\* on_batch raised in the first cycle and is running in the second, with a
\* batch that holds an article.
C12_Witness ==
    /\ loopPc = "batch" /\ batchRaised /\ batchCalls = 2 /\ cycles = 2
    /\ lastBatch = all_new
    /\ \E i \in 1..Len(lastBatch) : lastBatch[i].items # <<>>

\* C13 as stated: run_continuous_polling returns only after a
\* KeyboardInterrupt, then returns without raising, and the state file then
\* holds the state of the last completed cycle.
C13_FileHoldsLastCycle ==
    /\ loopPc # "failed"
    /\ loopPc = "returned" => interrupted
    /\ (loopPc = "returned" /\ cycleState # Absent) => files.dest = cycleState

\* C13 amended: run_continuous_polling returns only after a
\* KeyboardInterrupt, then returns without raising, and the state file then
\* is what it was at the start or the complete document of the last
\* completed cycle whose save succeeded: that of the last completed cycle
\* when no save failed; it is never empty or partial.
C13_FileHoldsLastSavedCycle ==
    /\ loopPc # "failed"
    /\ loopPc = "returned" => interrupted
    /\ loopPc = "returned" =>
          /\ files.dest = savedState
          /\ files.dest.kind \in {"absent", "json"}
          /\ (cycleState # Absent /\ ~lostSave) => files.dest = cycleState

\* The interrupt came while the second cycle was writing the temp file: the
\* state file holds the first cycle's document, the temp file a part of the
\* second's.
C13_Witness ==
    /\ loopPc = "returned" /\ interrupted /\ cycles = 2
    /\ files.tmp.kind = "partial"
    /\ files.dest = cycleState
    /\ files.dest.kind = "json" /\ files.dest.seen_items # <<>>
    /\ Range(files.dest.seen_items) # seen_keys

\* --------------------------------------------------- the webhook listener
CallsOf(c) == SelectSeq(calls, LAMBDA x : x.conn = c)
HandlersCalled(c) == [i \in 1..Len(CallsOf(c)) |-> CallsOf(c)[i].handler]
IsPrefix(s, t) == Len(s) <= Len(t) /\ SubSeq(t, 1, Len(s)) = s

\* A JSON object with a non-empty string `event` and, if any, an object `data`.
WellFormed(req) ==
    /\ req.body.kind = "json" /\ req.body.top = "object"
    /\ req.body.event.type = "string" /\ req.body.event.val # ""
    /\ req.body.data.type \in {"missing", "object"}

\* No JSON, JSON that is no object, or an object without a non-empty `event`.
Malformed(req) ==
    \/ req.body.kind \in {"not_json", "empty"}
    \/ req.body.kind = "json" /\ req.body.top # "object"
    \/ /\ req.body.kind = "json" /\ req.body.top = "object"
       /\ req.body.event \in {JsonMissing, JsonNull, Json("string", "")}

\* C14: for a well-formed envelope posted to the configured path nothing is
\* sent before emit has returned, and what is sent then is 200 with the body
\* "OK", every callback the event had having been called and having ended,
\* whether it returned or raised.
C14_OkAfterEmit ==
    \A c \in ConnIds :
       LET k == conns[c] IN
       (k.pc # "free" /\ k.req.path = path /\ WellFormed(k.req)) =>
          /\ k.pc # "died"
          /\ k.pc \in {"accepted", "emit", "callback"} => (k.status = 0 /\ k.sent = "")
          /\ k.pc = "done" =>
                /\ k.status = 200 /\ k.sent = "OK"
                /\ Len(CallsOf(c)) >= k.due
                /\ \A i \in 1..Len(CallsOf(c)) : CallsOf(c)[i].outcome # "running"

\* A well-formed request answered 200 OK after one of its callbacks raised.
C14_Witness ==
    \E c \in ConnIds :
       /\ conns[c].pc = "done" /\ conns[c].status = 200 /\ conns[c].sent = "OK"
       /\ conns[c].req.path = path /\ WellFormed(conns[c].req)
       /\ \E i \in 1..Len(calls) : calls[i].conn = c /\ calls[i].outcome = "raised"

\* C15: the handling of a malformed body posted to the configured path ends
\* with a 400 response that names the error, calls no callback, and leaves
\* the server, its thread and the registry as they were.
C15_MalformedGets400 ==
    [][ \A c \in ConnIds :
          ( /\ conns[c].pc = "accepted" /\ conns'[c] # conns[c]
            /\ conns[c].req.path = path /\ Malformed(conns[c].req) ) =>
             /\ conns'[c].pc = "done" /\ conns'[c].status = 400
             /\ conns'[c].sent \in {"Bad payload: JSONDecodeError",
                                    "Bad payload: AttributeError",
                                    "Bad payload: Missing 'event'"}
             /\ calls' = calls
             /\ _server' = _server /\ _thread' = _thread /\ _subs' = _subs ]_vars

\* After a request answered 400 the server has taken a second request and
\* called a callback for it.
C15_Witness ==
    /\ lastServed = 400 /\ _server = "server"
    /\ \E c \in ConnIds :
          /\ conns[c].pc = "done" /\ conns[c].status = 200
          /\ CallsOf(c) # <<>>

\* C16: a request to another path than the one the listener was built with
\* gets 404 and no callback is called for it, whatever its body.
C16_OtherPathGets404 ==
    \A c \in ConnIds :
       LET k == conns[c] IN
       (k.pc \notin {"free", "accepted"} /\ k.req.path # path) =>
          /\ k.pc = "done" /\ k.status = 404 /\ k.sent = ""
          /\ CallsOf(c) = <<>>

\* A listener built for another path than the default one: a well-formed
\* request for an event with callbacks, posted to the default path, got 404.
C16_Witness ==
    /\ path # DefaultPath
    /\ \E c \in ConnIds :
          /\ conns[c].pc = "done" /\ conns[c].status = 404
          /\ conns[c].req.path = DefaultPath /\ WellFormed(conns[c].req)
          /\ RegisteredFor(conns[c].req.body.event.val) # <<>>

\* C17: when a well-formed request has been answered, the callbacks called
\* for it are those registered for its event, one call per registration:
\* all that were registered when emit was called and none registered for
\* another event, each with the request's `data` object ({} if it has none).
C17_OneCallPerRegistration ==
    \A c \in ConnIds :
       LET k == conns[c] IN
       (k.pc = "done" /\ k.status = 200 /\ WellFormed(k.req)) =>
          /\ IsPrefix(HandlersCalled(c), RegisteredFor(k.req.body.event.val))
          /\ Len(CallsOf(c)) >= k.due
          /\ \A i \in 1..Len(CallsOf(c)) :
                CallsOf(c)[i].data = IF k.req.body.data.type = "object"
                                     THEN k.req.body.data ELSE EmptyObject

\* A function registered twice, before and after the handler object: it is
\* called twice, the method for the event once, the other methods not.
C17_Witness ==
    \E c \in ConnIds :
       /\ conns[c].pc = "done" /\ conns[c].status = 200
       /\ conns[c].req.body.data = Json("object", "d1")
       /\ HandlersCalled(c) = <<"f", Method("market_added"), "f">>
       /\ _subs["payout_logs"].handlers # <<>>

\* C18: a callback that raises does not end emit: the callbacks after it are
\* called, in order, and emit returns to do_POST.
C18_RaisingCallbackIsIsolated ==
    \A c \in ConnIds :
       LET k == conns[c] IN
       (\E i \in 1..Len(calls) : calls[i].conn = c /\ calls[i].outcome = "raised") =>
          /\ k.pc \in {"emit", "callback", "done"}
          /\ k.pc = "emit" => k.idx = Len(CallsOf(c)) + 1
          /\ k.pc = "done" => Len(CallsOf(c)) >= k.due

\* The first of two callbacks raised, the second was called and returned.
C18_Witness ==
    \E c \in ConnIds :
       /\ conns[c].pc = "done"
       /\ Len(CallsOf(c)) = 2
       /\ CallsOf(c)[1].outcome = "raised" /\ CallsOf(c)[2].outcome = "returned"
       /\ CallsOf(c)[1].handler # CallsOf(c)[2].handler

\* C19: at every point of an emit the callbacks called so far are the first
\* of those registered for the event, in the order of their registration,
\* each called with the data emit was given.
C19_RegistrationOrder ==
    \A c \in ConnIds :
       LET k == conns[c] IN
       k.pc \in {"emit", "callback", "done"} =>
          /\ IsPrefix(HandlersCalled(c), RegisteredFor(k.event.val))
          /\ \A i \in 1..Len(CallsOf(c)) : CallsOf(c)[i].data = k.data

\* g was registered before f, and emit is in its second call, that of f.
C19_Witness ==
    \E c \in ConnIds :
       /\ conns[c].pc = "callback"
       /\ HandlersCalled(c) = <<"g", "f">>
       /\ registered = <<[event |-> "market_added", handler |-> "g"],
                         [event |-> "market_added", handler |-> "f"]>>

\* C20: the registry is what the registrations made it, whatever was
\* emitted; an emit for an event without callbacks calls nothing and returns,
\* and the request is answered 200 OK.
C20_EmitWithoutCallbacks ==
    /\ \A e \in RegEvents :
          /\ _subs[e].present = (RegisteredFor(e) # <<>>)
          /\ _subs[e].handlers = RegisteredFor(e)
    /\ \A c \in ConnIds :
          LET k == conns[c] IN
          (k.event # JsonMissing /\ Hashable(k.event) /\ k.due = 0) =>
             /\ k.pc \in {"emit", "done"}
             /\ CallsOf(c) = <<>>
             /\ k.pc = "done" => (k.status = 200 /\ k.sent = "OK")

\* A well-formed request for an event nobody registered for was answered
\* 200 OK, other events having callbacks.
C20_Witness ==
    \E c \in ConnIds :
       /\ conns[c].pc = "done" /\ conns[c].status = 200
       /\ WellFormed(conns[c].req)
       /\ conns[c].req.body.event.val \in RegEvents
       /\ ~_subs[conns[c].req.body.event.val].present
       /\ registered # <<>>
       /\ CallsOf(c) = <<>>

\* ------------------------------------------------------- start and stop
\* The state of the listener: STARTING inside start() once the socket is
\* bound, LISTENING while it holds a server, STOPPED without one.
LifeState ==
    IF caller = "starting" THEN "STARTING"
    ELSE IF _server = "None" THEN "STOPPED"
    ELSE "LISTENING"

\* A step in which a request is dispatched: emit is called for it, or one of
\* the callbacks is.
Dispatches ==
    \/ \E c \in ConnIds : conns[c].pc = "accepted" /\ conns'[c].pc = "emit"
    \/ Len(calls') > Len(calls)

\* C21: the listener goes only from STOPPED to STARTING, from STARTING to
\* LISTENING and from LISTENING to STOPPED; when start() returns the listener
\* is LISTENING, with its socket bound and served on the serving thread; and
\* no request is dispatched while the listener is STOPPED.
C21_Lifecycle ==
    [][ /\ LifeState' # LifeState =>
               <<LifeState, LifeState'>> \in { <<"STOPPED", "STARTING">>,
                                               <<"STARTING", "LISTENING">>,
                                               <<"LISTENING", "STOPPED">> }
        /\ (caller = "starting" /\ caller' = "idle") =>
               /\ LifeState' = "LISTENING"
               /\ sockets'[_server'] = "serving"
               /\ _thread' # "None"
        /\ Dispatches => LifeState # "STOPPED" ]_vars

\* C22: stop() on a listener without a server, one that was never started
\* or one that was stopped, returns without raising and changes nothing.
C22_StopWithoutServer ==
    [][ (caller = "idle" /\ _server = "None" /\ callLog' # callLog
            /\ callLog'[2] \notin {"start_ok", "start_raised"}) =>
           /\ callLog'[2] = "stop_noop"
           /\ UNCHANGED <<hookVars, port, sockets, caller>> ]_vars

\* stop() was called before any start(), and a second time after a stop.
C22_Witness ==
    \/ callLog = <<"none", "stop_noop">>
    \/ callLog = <<"stop_ok", "stop_noop">> /\ Live(sockets) = {}

\* C23: once stop() has shut its server down that server accepts no
\* connection; when stop() returns the socket is released, the listener is
\* STOPPED, and the requests that were in flight have finished (the wait for
\* them is bounded, and the model has no step in which it runs out); stop()
\* never raises.
C23_StopWaitsForRequests ==
    [][ /\ caller = "stop_close" => sockets[_server] # "serving"
        /\ (caller = "stop_join" /\ caller' = "idle") =>
               /\ LifeState' = "STOPPED"
               /\ \A s \in ServerNames : sockets[s] = "shut" => sockets'[s] = "closed"
               /\ callLog'[2] = "stop_ok"
               /\ InFlight' = {} ]_vars

\* C24: start() on a LISTENING listener changes nothing or raises: there is
\* never a second socket of the listener, every socket of the listener is
\* the one self._server holds, and after stop() has returned nothing serves
\* requests.
C24_NoSecondListener ==
    /\ Cardinality(Live(sockets)) <= 1
    /\ \A s \in Live(sockets) : _server = s
    /\ (caller = "idle" /\ callLog[2] = "stop_ok") =>
           \A s \in ServerNames : sockets[s] # "serving"

\* ---------------------------------------------- the loop and its cycles
\* C25: an interrupt does not cut a cycle short: when the loop is left, the
\* cycle that was begun last has fetched every source and its _save_state
\* has run to its end.
C25_InterruptOnlyBetweenCycles ==
    [][ (loopPc \in {"poll", "batch", "sleep"} /\ loopPc' \in {"returned", "failed"}
            /\ cycles > 0) =>
           /\ pc \in {"ret", "idle"}
           /\ Len(outcomes) = Len(Feeds)
           /\ saveCalls = 1 ]_vars

\* C27: a cycle begins only when none is in progress, from the call of
\* run_continuous_polling or after the sleep, with on_batch called for every
\* cycle before it; the sources of a cycle are fetched one at a time in the
\* order of the configuration; and on_batch is called when all sources were
\* fetched and _save_state has run.
C27_CyclesNeverOverlap ==
    [][ /\ cycles' # cycles =>
               /\ loopPc = "poll" /\ pc = "idle" /\ loopPc' = "poll"
               /\ cycles' = cycles + 1
               /\ on_batch => batchCalls = cycles
        /\ (loopPc' = "poll" /\ loopPc # "poll") => loopPc \in {"off", "sleep"}
        /\ Len(outcomes') > Len(outcomes) =>
               /\ pc = "loop" /\ loopPc = "poll"
               /\ Len(outcomes') = Len(outcomes) + 1
               /\ Len(all_new') = Len(outcomes')
               /\ all_new'[Len(all_new')].source = Feeds[Len(outcomes')]
        /\ batchCalls' # batchCalls =>
               /\ pc = "ret" /\ pc' = "idle"
               /\ Len(outcomes) = Len(Feeds) /\ saveCalls = 1
               /\ batchCalls' = cycles ]_vars

\* The first source of the second cycle has been fetched, after the first
\* cycle's on_batch raised.
C27_Witness ==
    /\ on_batch /\ cycles = 2 /\ batchCalls = 1 /\ batchRaised
    /\ loopPc = "poll" /\ pc = "loop" /\ srcIdx = 2 /\ Len(outcomes) = 1

\* C28: no step of a poller takes a fingerprint out of seen_keys.
C28_SeenKeysOnlyGrows ==
    [][seen_keys \subseteq seen_keys']_vars

\* A second cycle, after a save and an on_batch that failed, has met a
\* failing fetch and a 304, and seen_keys holds what the first cycle saw.
C28_Witness ==
    /\ cycles = 2 /\ lostSave /\ batchRaised /\ pc = "ret"
    /\ outcomes = <<"error", "304">>
    /\ Cardinality(seen_keys) >= 2
    /\ seen_keys = seenAtStart

\* C29: one seen set serves all sources. No fingerprint is in the lists of
\* two sources of a cycle, or in the lists of two cycles; the list of the
\* second source holds what it fetched less what was seen before the cycle
\* and what the first source emitted in this cycle.
C29_SharedAcrossSources ==
    /\ \A k \in AllKeys : emitted[k] <= 1
    /\ (InCycle /\ Len(all_new) = Len(Feeds)) =>
          LET first == Keys(all_new[1].items)
              second == Keys(all_new[2].items)
          IN /\ all_new[1].source = Feeds[1] /\ all_new[2].source = Feeds[2]
             /\ first \cap second = {}
             /\ first \cap seenAtStart = {}
             /\ seenBefore = seenAtStart \cup first
             /\ second = Keys(articles) \ (seenAtStart \cup first)

\* In a second cycle the second source lists an article that the first
\* source emitted in this cycle and one that was emitted in the first cycle,
\* and its list is empty.
C29_Witness ==
    /\ cycles = 2 /\ InCycle /\ Len(all_new) = Len(Feeds)
    /\ \E k \in Keys(articles) : k \in Keys(all_new[1].items)
    /\ \E k \in Keys(articles) : k \in seenAtStart /\ emitted[k] = 1
    /\ all_new[2].items = <<>>

\* ------------------------------------------------ validators and a 304
\* The step in which fetch_feed_data meets a 304.
FetchMeets304 ==
    /\ ~fetchResult.called /\ fetchResult'.called
    /\ fetchArg.kind = "response" /\ fetchArg.status = 304

\* C30 as stated: after a fetch answered 304 the source's etag and
\* last-modified are what they were before the fetch.
C30_ValidatorKeptOn304 ==
    [][ FetchMeets304 =>
           /\ feed_state'[Feeds[1]].etag = feed_state[Feeds[1]].etag
           /\ feed_state'[Feeds[1]].modified = feed_state[Feeds[1]].modified ]_vars

\* C30 amended: after a fetch answered 304 each of the source's validators
\* is what it was before the fetch unless the response carries that
\* validator, which then is the one stored; the validators of the other
\* sources are untouched.
C30_ValidatorKeptUnlessSent ==
    [][ FetchMeets304 =>
           LET before == feed_state[Feeds[1]]
               after == feed_state'[Feeds[1]]
           IN /\ after.etag = IF fetchArg.etag = None THEN before.etag
                              ELSE fetchArg.etag
              /\ after.modified = IF fetchArg.modified = None THEN before.modified
                                  ELSE fetchArg.modified
              /\ \A src \in Sources \ {Feeds[1]} : feed_state'[src] = feed_state[src] ]_vars

\* A 304 without validators has left the stored etag and last-modified in
\* place.
C30_Witness ==
    /\ fetchResult.called /\ fetchArg.kind = "response" /\ fetchArg.status = 304
    /\ fetchArg.etag = None /\ fetchArg.modified = None
    /\ feed_state[Feeds[1]].etag = <<"e0">>
    /\ feed_state[Feeds[1]].modified = <<"m0">>
    /\ fetchResult.articles = <<>>

\* ------------------------------------------------ deliveries over the runs
\* The keys of the articles of a batch.
BatchKeys(batch) == {k \in AllKeys : InBatch(batch, k) > 0}

\* The fingerprints a process started now would load from the state file.
Persisted == InitialState(state_path, files.dest).seen_keys

\* C26 as stated: no fingerprint is passed to on_batch twice, in one run or
\* over the runs, and while on_batch handles a batch the fingerprints of its
\* articles are in seen_keys and in the state file.
C26_DeliveredAtMostOnce ==
    /\ \A k \in AllKeys : delivered[k] <= 1
    /\ loopPc = "batch" =>
          /\ BatchKeys(lastBatch) \subseteq seen_keys
          /\ BatchKeys(lastBatch) \subseteq Persisted

\* C26 amended: no fingerprint is passed to on_batch twice in one run;
\* while on_batch handles a batch the fingerprints of its articles are in
\* seen_keys, and in the state file if the save of the cycle succeeded; and
\* a fingerprint passed to on_batch in a cycle whose save succeeded is not
\* passed to it again, in that run or a later one.
C26_AtMostOnceWhenSaved ==
    [][ /\ \A k \in AllKeys : deliveredNow'[k] <= 1
        /\ loopPc' = "batch" =>
               /\ BatchKeys(lastBatch') \subseteq seen_keys'
               /\ saveOk' => BatchKeys(lastBatch') \subseteq Persisted'
        /\ \A k \in durable : delivered'[k] = delivered[k] ]_vars

\* A later run has fetched an article that the first run passed to on_batch
\* in a cycle whose save succeeded, and is calling on_batch without it.
C26_Witness ==
    /\ run = "later" /\ loopPc = "batch"
    /\ \E k \in durable :
          /\ k \in cycleKeys
          /\ delivered[k] = 1
          /\ k \notin BatchKeys(lastBatch)

\* ------------------------------------------------- where validators come from
\* The values a response of the given outcome supplies for a validator.
Supplied(outcome, field) ==
    { IF field = "etag" THEN r.etag ELSE r.modified :
         r \in { x \in LoopResponses :
                    /\ x.kind = "response"
                    /\ (x.status = 304) = (outcome = "304") } } \ {None}

\* C31: the validators a new poller holds are those of the state file;
\* afterwards the validators of a source change only in the step in which
\* that source is fetched and the fetch returned a response, and each then
\* becomes a value which that response supplied; a fetch that raised
\* changes no validator.
C31_ValidatorsOnlyFromResponses ==
    [][ /\ pc = "new" => feed_state' = InitialState(state_path, files.dest).feed_state
        /\ pc # "new" =>
              \A src \in Sources :
                 LET before == feed_state[src]
                     after == feed_state'[src]
                 IN (after.etag # before.etag \/ after.modified # before.modified) =>
                       /\ pc = "loop" /\ src = Feeds[srcIdx]
                       /\ Len(outcomes') = Len(outcomes) + 1
                       /\ outcomes'[Len(outcomes')] # "error"
                       /\ after.etag = before.etag
                             \/ after.etag \in Supplied(outcomes'[Len(outcomes')], "etag")
                       /\ after.modified = before.modified
                             \/ after.modified \in Supplied(outcomes'[Len(outcomes')],
                                                             "modified")
        /\ (Len(outcomes') = Len(outcomes) + 1 /\ outcomes'[Len(outcomes')] = "error") =>
              feed_state' = feed_state ]_vars

\* The fetch of the first source raised and left it the etag of the state
\* file; the second source has the validators of its response.
C31_Witness ==
    /\ pc = "loop" /\ outcomes = <<"error", "200">>
    /\ files.dest.kind = "json"
    /\ feed_state[Feeds[1]] = InitialState(state_path, files.dest).feed_state[Feeds[1]]
    /\ feed_state[Feeds[1]].etag # None
    /\ feed_state[Feeds[1]].modified = None
    /\ feed_state[Feeds[2]].etag = <<"e1">> /\ feed_state[Feeds[2]].modified = <<"m1">>

\* ------------------------------------------------------------ the order
\* C32: the articles fetch_feed_data returns are in descending order of
\* published_iso, and an article without published_iso comes after every
\* article that has one.
C32_NewestFirst ==
    (fetchResult.called /\ fetchArg.kind = "response" /\ fetchArg.status # 304) =>
       LET got == fetchResult.articles IN
       \A i \in 1..Len(got), j \in 1..Len(got) :
          i < j =>
             /\ got[i].published_iso = None => got[j].published_iso = None
             /\ (got[i].published_iso # None /\ got[j].published_iso # None) =>
                   ~StrLess(got[i].published_iso, got[j].published_iso)

\* A feed that lists an entry without a parsable time before a dated one:
\* the sort moved the dated article to the front.
C32_Witness ==
    /\ fetchResult.called /\ fetchArg.kind = "response" /\ fetchArg.status = 200
    /\ Len(fetchResult.articles) = 2
    /\ fetchResult.articles[1] = MakeArticle(fetchArg.entries[2], Feeds[1])
    /\ fetchResult.articles[2] = MakeArticle(fetchArg.entries[1], Feeds[1])
    /\ fetchResult.articles[1].published_iso # None
    /\ fetchResult.articles[2].published_iso = None

\* The data a request hands to emit: its `data` object, {} if it has none.
OwnData(req) == IF req.body.data.type = "object" THEN req.body.data ELSE EmptyObject

\* C33: with several requests in flight on their own threads, each emit
\* calls the callbacks registered for its event in the order of their
\* registration, with its own data, one after the other, and has called each
\* of them exactly once when it has returned, whatever the other emits do.
C33_EachEmitItsOwnCallbacks ==
    \A c \in ConnIds :
       LET k == conns[c]
           mine == CallsOf(c)
       IN k.pc \in {"emit", "callback", "done"} =>
             /\ IsPrefix(HandlersCalled(c), RegisteredFor("market_added"))
             /\ \A i \in 1..Len(mine) :
                   /\ mine[i].data = OwnData(k.req)
                   /\ mine[i].outcome = "running" => (i = Len(mine) /\ k.pc = "callback")
             /\ k.pc = "done" => HandlersCalled(c) = RegisteredFor("market_added")

\* No lock: f runs for one request while g runs for another with other data,
\* the emit of the second having overtaken that of the first.
C33_Witness ==
    \E c, d \in ConnIds :
       /\ c # d
       /\ conns[c].pc = "callback" /\ conns[d].pc = "callback"
       /\ \E i, j \in 1..Len(calls) :
             /\ calls[i].conn = c /\ calls[i].outcome = "running" /\ calls[i].handler = "f"
             /\ calls[j].conn = d /\ calls[j].outcome = "running" /\ calls[j].handler = "g"
             /\ calls[i].data # calls[j].data

\* C34: a request posted to the configured path whose body is a JSON object
\* with an `event` that is present but is no string (a number, a list) is
\* answered 400 and no callback is called for it.
C34_NonStringEventRejected ==
    \A c \in ConnIds :
       LET k == conns[c] IN
       ( /\ k.pc \notin {"free", "accepted"} /\ k.req.path = path
         /\ k.req.body.kind = "json" /\ k.req.body.top = "object"
         /\ k.req.body.event.type \notin {"missing", "null", "string"} ) =>
            /\ k.pc = "done" /\ k.status = 400
            /\ CallsOf(c) = <<>>

\* C35: every callback is called with a JSON object: the request's `data`
\* if that is an object, the empty object if `data` is absent or null, and
\* never a `data` value of another type.
C35_CallbacksGetObjects ==
    \A i \in 1..Len(calls) :
       LET req == conns[calls[i].conn].req IN
       /\ calls[i].data.type = "object"
       /\ req.body.data.type = "object" => calls[i].data = req.body.data
       /\ req.body.data.type \in {"missing", "null"} => calls[i].data = EmptyObject

\* Every call of the handler has returned and no batch is queued or in the
\* worker's hands.
Quiescent ==
    /\ \A e \in EventIds : evts[e].pc \in {"free", "returned"}
    /\ _market_queue = <<>>
    /\ worker.pc # "process"

\* The market_resolved events for m have deleted its point.
ResolvedHandled(m) ==
    /\ \E e \in EventIds :
          evts[e].event = "resolved" /\ m \in Range(evts[e].markets)
    /\ \A e \in EventIds :
          (evts[e].event = "resolved" /\ m \in Range(evts[e].markets)) =>
             (evts[e].pc = "returned" /\ evts[e].out = "ok")

\* C36: a market whose market_added had been acknowledged when its
\* market_resolved was received, and that was not added again, has no point
\* in the index once both events are fully handled, the delete having
\* succeeded, with the direct and with the queued handler.
C36_ResolvedMarketAbsent ==
    \A m \in MarketIds :
       (m \in ordered /\ m \notin lateAdded /\ ResolvedHandled(m) /\ Quiescent) =>
          generate_uuid(m) \notin index

\* C37: in the queued handler a call of on_market_added puts its batch, cut
\* to the first max_markets markets if max_markets is set, at the end of the
\* queue and returns, leaving the index and the worker alone; the one worker
\* takes the batches in the order they were put, and takes the next only
\* when it has none in hand.
C37_EnqueueOnlyFifoWorker ==
    /\ [](handlerKind = "queued" =>
             /\ taken \o _market_queue = enqueued
             /\ worker.pc = "process" => (taken # <<>> /\ worker.markets = taken[Len(taken)]))
    /\ [][ handlerKind = "queued" =>
             /\ \A e \in EventIds :
                   (evts[e].event = "added" /\ evts[e].pc = "called" /\ evts'[e] # evts[e]) =>
                      /\ evts'[e].pc = "returned"
                      /\ _market_queue' = Append(_market_queue,
                                                 IF max_markets.set
                                                 THEN Take(evts[e].markets, max_markets.n)
                                                 ELSE evts[e].markets)
                      /\ index' = index /\ worker' = worker
             /\ taken' # taken =>
                   /\ worker.pc = "get" /\ worker'.pc = "process"
                   /\ taken' = Append(taken, Head(_market_queue)) ]_vars

\* With max_markets = 1 a batch of two markets was cut to one and
\* acknowledged with nothing indexed; the worker has the batch put first in
\* hand while another, put later, waits in the queue.
C37_Witness ==
    /\ handlerKind = "queued" /\ max_markets.set
    /\ \E e \in EventIds :
          evts[e].event = "added" /\ evts[e].pc = "returned" /\ Len(evts[e].markets) = 2
    /\ Len(enqueued) = 2 /\ enqueued[1] # enqueued[2]
    /\ \A i \in 1..2 : Len(enqueued[i]) = 1
    /\ worker.pc = "process" /\ worker.markets = enqueued[1]
    /\ _market_queue = <<enqueued[2]>>
    /\ index = {}

\* C38: a batch put on the queue is taken by the worker, unless shutdown
\* has stopped it, and the processing of a batch taken comes to its end; a
\* market whose embedding or upsert fails is skipped and
\* the worker goes on with the next market of the batch; an exception that
\* leaves the processing of a batch takes the worker back to its loop, where
\* it takes the later batches.
C38_BatchesProcessed ==
    /\ \A n \in 1..MaxEvents :
          (handlerKind = "queued" /\ Len(enqueued) >= n)
             ~> (Len(taken) >= n \/ ~_running)
    /\ (worker.pc = "process") ~> (worker.pc = "test")
    /\ [][ (worker.pc = "process" /\ worker' # worker) =>
              \/ /\ worker'.pc = "process" /\ worker'.markets = worker.markets
                 /\ worker'.i = worker.i + 1
                 /\ index' \in {index, index \cup {generate_uuid(worker.markets[worker.i])}}
              \/ /\ worker'.pc = "test" /\ index' = index
                 /\ \/ worker.i > Len(worker.markets)
                    \/ worker.markets[worker.i] \notin MarketIds ]_vars
    /\ [](worker.pc = "exited" => ~_running)

\* The worker has taken a second batch after an exception ended its
\* processing of the first, whose second market it never reached, and has
\* upserted the second market of the second batch although the first was
\* skipped.
C38_Witness ==
    /\ handlerKind = "queued" /\ _running
    /\ taken = << <<NotADict, "m2">>, <<"m1", "m2">> >>
    /\ worker.pc = "process" /\ worker.i = 3
    /\ index = {generate_uuid("m2")}

\* C39: once shutdown() has been called the worker comes to its end and
\* shutdown() returns, whether the worker has ended or not; a worker that
\* finds the flag cleared at its loop test ends there, and a worker that has
\* ended takes nothing, so that what is on the queue then stays there.
C39_WorkerStopsAfterShutdown ==
    /\ (shutdownPc # "idle") ~> (worker.pc = "exited")
    /\ (shutdownPc = "join") ~> (shutdownPc = "returned")
    /\ [][ /\ (~_running /\ worker.pc = "test" /\ worker' # worker) => worker'.pc = "exited"
           /\ worker.pc = "exited" =>
                 /\ worker' = worker /\ taken' = taken /\ index' \subseteq index
                 /\ IsPrefix(_market_queue, _market_queue')
           /\ shutdownPc # "idle" => (~_running' /\ shutdownPc' # "idle") ]_vars

\* shutdown() has returned while the worker is still processing a batch,
\* with another batch on the queue.
C39_Witness ==
    /\ shutdownPc = "returned" /\ ~_running
    /\ worker.pc = "process" /\ worker.i <= Len(worker.markets)
    /\ _market_queue # <<>>

\* C40: _request makes at most `retries` attempts; every attempt but the
\* last made ended in a read timeout, connect error or remote protocol
\* error, and was followed by a sleep of backoff * 2^(attempt-1); the call
\* returns on the first response, raises the transient error of its
\* retries-th attempt, and raises any other error at once.
C40_BoundedRetries ==
    LET n == Len(tried) IN
    /\ n <= retries
    /\ \A i \in 1..(n - 1) : tried[i] \in {"ReadTimeout", "ConnectError", "RemoteProtocolError"}
    /\ Len(slept) = IF n > 0 /\ reqPc # "attempt" THEN n - 1 ELSE n
    /\ \A i \in 1..Len(slept) : slept[i] = backoff * (2 ^ (i - 1))
    /\ reqPc = "attempt" => attempt = n + 1
    /\ n > 0 =>
          /\ reqPc = "returned" <=> tried[n] = "response"
          /\ tried[n] = "HTTPStatusError" => (reqPc = "raised" /\ last_exc = "HTTPStatusError")
          /\ tried[n] \in {"ReadTimeout", "ConnectError", "RemoteProtocolError"} =>
                IF n = retries
                THEN reqPc = "raised" /\ last_exc = tried[n]
                ELSE reqPc \in {"sleep", "attempt"}

\* Three attempts of a client with retries = 3 and backoff 2, each ended by
\* another transient error, with sleeps of 2 and 4 between them; the last
\* error was raised.
C40_Witness ==
    /\ retries = 3 /\ backoff = 2
    /\ tried = <<"ReadTimeout", "ConnectError", "RemoteProtocolError">>
    /\ slept = <<2, 4>>
    /\ reqPc = "raised" /\ last_exc = "RemoteProtocolError"

====
